---- MODULE Spec2Model ----
(***************************************************************************)
(* A model of the editing pipeline of notes_app: the autosave runtime      *)
(* (src/src/journaling/autosave.rs), the editing buffer                    *)
(* (src/src/app/state.rs, EditorState) and the glue between them           *)
(* (src/src/app/mod.rs).                                                   *)
(*                                                                         *)
(* Time is counted in ticks.  The environment may reject store writes,     *)
(* fail a journal write or rename, kill the process (also in the middle    *)
(* of a snapshot write) and restart it on the same journal directory.      *)
(* Removing a file and listing the journal directory are taken to          *)
(* succeed.                                                                *)
(***************************************************************************)
EXTENDS Integers, Sequences, FiniteSets, TLC

(***************************************************************************)
(* Bounds of the model.                                                    *)
(***************************************************************************)
\* the clock stops at MaxTime
MaxTime == 2
\* how many journal I/O failures and kills inside a snapshot write a run of
\* SpecFaulty has
MaxFaults == 1
\* MAX_HISTORY of EditorState::record_history (200 in the source)
MAX_HISTORY == 2
\* the longest buffer an edit may make, and the longest a note starts with,
\* in bytes
MaxLen == 3
InitLen == 2
\* JOURNAL_PRUNE_INTERVAL, in ticks (one tick stands for five minutes)
JOURNAL_PRUNE_INTERVAL == 1

\* note ids, and the note bodies the runtime-level specification passes around
Notes == {1, 2}
Bodies == {<<"a">>, <<"b">>}
\* the debounce windows and retention windows tried, in ticks (0: none)
Debounces == {0, 1}
Retentions == {0, 1}

(***************************************************************************)
(* Option<T>: None is the empty sequence, Some(x) the one-element one.     *)
(***************************************************************************)
None == <<>>
Some(x) == <<x>>
IsSome(o) == o # <<>>
Get(o) == o[1]

VARIABLES
    cfg,         \* AutoSaveConfig: enabled, crash_recovery, retention, debounce
    alive,       \* an AutoSaveRuntime exists (FALSE: dropped or process dead)
    session,     \* AutoSaveRuntime.session : Option<Session>
    last_prune,  \* AutoSaveRuntime.last_prune
    journal,     \* the files of the journal directory
    store,       \* the durable store: the body of every note
    now,         \* the clock
    editable,    \* the notes the caller opens sessions on
    faults_left, \* journal I/O failures and kills inside a write still to come
    quiet,       \* the caller has stopped editing: it only polls from now on
    pending,     \* history: the last content-changing update_buffer that
                 \* returned Ok, while the runtime was then dropped and a
                 \* fresh one constructed with no other operation between
    editor,      \* AppState.editor : Option<EditorState>
    trail,       \* history: the content-changing edits made since the editor
                 \* was constructed or marked clean, while no undo or redo
                 \* came between: how many, and the content before the last;
                 \* and the content the editor had when it was constructed
                 \* or last marked clean
    notes,       \* AppState.notes: the body held in memory for each note
    exit_ret     \* history: what exit_editing returned, if it ran last

appVars == <<notes, exit_ret>>
edVars == <<editor, trail, notes, exit_ret>>
vars == <<cfg, alive, session, last_prune, journal, store, now, editable,
          faults_left, quiet, pending, editor, trail, notes, exit_ret>>

(***************************************************************************)
(* The journal directory.  A file is a sequence of fields; a complete      *)
(* snapshot file is the serialisation of a SnapshotRecord.                 *)
(***************************************************************************)
SNAPSHOT_EXTENSION == "json"
SNAPSHOT_TMP_EXTENSION == "json.tmp"
Paths == Notes \X {SNAPSHOT_EXTENSION, SNAPSHOT_TMP_EXTENSION}

AbsentFile == [exists |-> FALSE, data |-> <<>>]
FileOf(data) == [exists |-> TRUE, data |-> data]

\* AutoSaveRuntime::snapshot_path
snapshot_path(note_id) == <<note_id, SNAPSHOT_EXTENSION>>
\* final_path.with_extension(SNAPSHOT_TMP_EXTENSION)
tmp_path(path) == <<path[1], SNAPSHOT_TMP_EXTENSION>>

\* serde_json::to_vec_pretty(&SnapshotRecord)
Serialize(record) == <<"{", record.note_id, record.saved_at, record.body, "}">>

\* serde_json::from_slice::<SnapshotRecord> succeeds
Parseable(data) == /\ Len(data) = 5
                   /\ data[1] = "{"
                   /\ data[5] = "}"

\* AutoSaveRuntime::read_snapshot_path on a parseable file
Parse(data) == [note_id |-> data[2], saved_at |-> data[3], body |-> data[4]]

\* a file cut short: a proper prefix of a serialised record
Torn(data) == Len(data) < 5 /\ (Len(data) >= 1 => data[1] = "{")

\* faulty variant of remove_snapshot_path: the file is left in place
remove_snapshot_path_kept(jr, path) == jr

\* AutoSaveRuntime::remove_snapshot_path: a missing file is not an error
remove_snapshot_path(jr, path) == [jr EXCEPT ![path] = AbsentFile]

(***************************************************************************)
(* write_snapshot.  io is what the file system does:                       *)
(*   "ok"           the temp file is written and renamed onto the final    *)
(*   "fail_rename"  the temp file is written, the rename fails             *)
(*   <<"cut", k>>   fs::write stops after k fields of the temp file        *)
(* Every outcome but "ok" returns Err.                                     *)
(***************************************************************************)
IoOk == <<"ok", 0>>
IoFailRename == <<"fail_rename", 0>>
IoCut(k) == <<"cut", k>>
IoOutcomes == {IoOk, IoFailRename} \cup {IoCut(k) : k \in 0..4}

SnapshotJson(sess, t) ==
    Serialize([note_id |-> sess.note_id, saved_at |-> t, body |-> sess.buffer])

\* faulty variants of write_snapshot: the rename is forgotten; the final file is
\* written in place
write_snapshot_no_rename(jr, sess, t, io) ==
    LET json == SnapshotJson(sess, t)
        tmp == tmp_path(sess.snapshot_path)
    IN  IF io = IoOk \/ io = IoFailRename
        THEN [jr EXCEPT ![tmp] = FileOf(json)]
        ELSE [jr EXCEPT ![tmp] = FileOf(SubSeq(json, 1, io[2]))]

write_snapshot_in_place(jr, sess, t, io) ==
    LET json == SnapshotJson(sess, t)
        final_path == sess.snapshot_path
    IN  IF io = IoOk \/ io = IoFailRename
        THEN [jr EXCEPT ![final_path] = FileOf(json)]
        ELSE [jr EXCEPT ![final_path] = FileOf(SubSeq(json, 1, io[2]))]

write_snapshot(jr, sess, t, io) ==
    LET json == SnapshotJson(sess, t)
        final_path == sess.snapshot_path
        tmp == tmp_path(final_path)
    IN  IF io = IoOk
        THEN [jr EXCEPT ![final_path] = FileOf(json), ![tmp] = AbsentFile]
        ELSE IF io = IoFailRename
        THEN [jr EXCEPT ![tmp] = FileOf(json)]
        ELSE [jr EXCEPT ![tmp] = FileOf(SubSeq(json, 1, io[2]))]

\* AutoSaveRuntime::read_snapshot: Ok(None), Ok(Some(snapshot)) or Err
read_snapshot(jr, note_id) ==
    LET f == jr[snapshot_path(note_id)]
    IN  IF ~f.exists THEN [ok |-> TRUE, snap |-> None]
        ELSE IF Parseable(f.data) THEN [ok |-> TRUE, snap |-> Some(Parse(f.data))]
        ELSE [ok |-> FALSE, snap |-> None]

\* faulty variant of prune_journal: the temp files are left in place
prune_journal_keeps_tmp(jr, t) ==
    IF ~cfg.crash_recovery THEN jr
    ELSE [p \in Paths |->
            IF ~jr[p].exists THEN jr[p]
            ELSE IF p[2] = SNAPSHOT_TMP_EXTENSION THEN jr[p]
            ELSE IF cfg.retention = 0 THEN jr[p]
            ELSE IF ~Parseable(jr[p].data) THEN AbsentFile
            ELSE IF Parse(jr[p].data).saved_at < t - cfg.retention THEN AbsentFile
            ELSE jr[p]]

\* faulty variant of prune_journal: a snapshot saved exactly at the cutoff goes too
prune_journal_inclusive(jr, t) ==
    IF ~cfg.crash_recovery THEN jr
    ELSE [p \in Paths |->
            IF ~jr[p].exists THEN jr[p]
            ELSE IF p[2] = SNAPSHOT_TMP_EXTENSION THEN AbsentFile
            ELSE IF cfg.retention = 0 THEN jr[p]
            ELSE IF ~Parseable(jr[p].data) THEN AbsentFile
            ELSE IF Parse(jr[p].data).saved_at <= t - cfg.retention THEN AbsentFile
            ELSE jr[p]]

\* AutoSaveRuntime::prune_journal at time t
prune_journal(jr, t) ==
    IF ~cfg.crash_recovery THEN jr
    ELSE [p \in Paths |->
            IF ~jr[p].exists THEN jr[p]
            ELSE IF p[2] = SNAPSHOT_TMP_EXTENSION THEN AbsentFile
            ELSE IF cfg.retention = 0 THEN jr[p]
            ELSE IF ~Parseable(jr[p].data) THEN AbsentFile
            ELSE IF Parse(jr[p].data).saved_at < t - cfg.retention THEN AbsentFile
            ELSE jr[p]]

(***************************************************************************)
(* Session                                                                 *)
(***************************************************************************)
\* Session::new
NewSession(note_id, buffer, path) ==
    [note_id |-> note_id, buffer |-> buffer, dirty |-> FALSE,
     dirty_since |-> None, dirty_since_wall |-> None,
     last_saved_at |-> None, last_error |-> None, snapshot_path |-> path]

\* faulty variant of mark_dirty_now: a dirty timestamp that is set is kept
mark_dirty_now_keeps_since(sess, t) ==
    [sess EXCEPT !.dirty = TRUE,
                 !.dirty_since = IF IsSome(sess.dirty_since) THEN sess.dirty_since ELSE Some(t),
                 !.dirty_since_wall = Some(t), !.last_error = None]

\* faulty variant of mark_dirty_now: the monotonic dirty timestamp is not set
mark_dirty_now_no_since(sess, t) ==
    [sess EXCEPT !.dirty = TRUE, !.dirty_since_wall = Some(t), !.last_error = None]

\* Session::mark_dirty_now
mark_dirty_now(sess, t) ==
    [sess EXCEPT !.dirty = TRUE, !.dirty_since = Some(t),
                 !.dirty_since_wall = Some(t), !.last_error = None]

\* faulty variant of mark_dirty_immediate: the monotonic dirty timestamp is not set
mark_dirty_immediate_no_since(sess, debounce, t) ==
    [sess EXCEPT !.dirty = TRUE, !.dirty_since_wall = Some(t), !.last_error = None]

\* Session::mark_dirty_immediate; the monotonic clock has run for at least
\* debounce, so that now.checked_sub(debounce) is Some
mark_dirty_immediate(sess, debounce, t) ==
    [sess EXCEPT !.dirty = TRUE, !.dirty_since = Some(t - debounce),
                 !.dirty_since_wall = Some(t), !.last_error = None]

(***************************************************************************)
(* The runtime's operations work on a world                                *)
(*   w = [session, last_prune, journal, store, ret]                        *)
(* and give the world after the call; ret is the call's result.            *)
(***************************************************************************)
Ret(op, note, res, event, snap, list, changed) ==
    [op |-> op, note |-> note, res |-> res, event |-> event, snap |-> snap,
     list |-> list, changed |-> changed]

NoRet == Ret("none", 0, "Ok", "None", None, <<>>, FALSE)

World == [session |-> session, last_prune |-> last_prune, journal |-> journal,
          store |-> store, ret |-> NoRet]

\* faulty variant of status: the dirty flag is looked at before the last error
status_dirty_first(sess) ==
    IF ~cfg.enabled /\ ~cfg.crash_recovery THEN "Disabled"
    ELSE IF sess = None THEN "Inactive"
    ELSE IF Get(sess).dirty THEN "Pending"
    ELSE IF IsSome(Get(sess).last_error) THEN "Error"
    ELSE "Idle"

\* AutoSaveRuntime::status
status(sess) ==
    IF ~cfg.enabled /\ ~cfg.crash_recovery THEN "Disabled"
    ELSE IF sess = None THEN "Inactive"
    ELSE IF IsSome(Get(sess).last_error) THEN "Error"
    ELSE IF Get(sess).dirty THEN "Pending"
    ELSE "Idle"

\* faulty variant of start_session: the recovered session is not marked dirty
start_session_not_dirty(w, note_id, initial_body, t) ==
    LET rd == IF cfg.crash_recovery THEN read_snapshot(w.journal, note_id)
              ELSE [ok |-> TRUE, snap |-> None]
        buffer == IF IsSome(rd.snap) THEN Get(rd.snap).body ELSE initial_body
        fresh == NewSession(note_id, buffer, snapshot_path(note_id))
    IN  IF ~rd.ok
        THEN [w EXCEPT !.ret = Ret("start_session", note_id, "Err", "None", None, <<>>, FALSE)]
        ELSE [w EXCEPT !.session = Some(fresh),
                       !.ret = Ret("start_session", note_id, "Ok", "None", rd.snap, <<>>, FALSE)]

\* AutoSaveRuntime::start_session
start_session(w, note_id, initial_body, t) ==
    LET rd == IF cfg.crash_recovery THEN read_snapshot(w.journal, note_id)
              ELSE [ok |-> TRUE, snap |-> None]
        buffer == IF IsSome(rd.snap) THEN Get(rd.snap).body ELSE initial_body
        fresh == NewSession(note_id, buffer, snapshot_path(note_id))
        sess == IF IsSome(rd.snap) THEN mark_dirty_immediate(fresh, cfg.debounce, t)
                ELSE fresh
    IN  IF ~rd.ok
        THEN [w EXCEPT !.ret = Ret("start_session", note_id, "Err", "None", None, <<>>, FALSE)]
        ELSE [w EXCEPT !.session = Some(sess),
                       !.ret = Ret("start_session", note_id, "Ok", "None", rd.snap, <<>>, FALSE)]

\* faulty variant of update_buffer: the session is not marked dirty
update_buffer_keeps_clean(w, note_id, contents, t, io) ==
    LET noop == [w EXCEPT !.ret = Ret("update_buffer", note_id, "Ok", "None", None, <<>>, FALSE)]
    IN  IF w.session = None THEN noop
        ELSE IF Get(w.session).note_id # note_id THEN noop
        ELSE IF Get(w.session).buffer = contents THEN noop
        ELSE LET sess == [Get(w.session) EXCEPT !.buffer = contents]
             IN  IF cfg.crash_recovery
                 THEN [w EXCEPT !.session = Some(sess),
                                !.journal = write_snapshot(w.journal, sess, t, io),
                                !.ret = Ret("update_buffer", note_id,
                                            IF io = IoOk THEN "Ok" ELSE "Err",
                                            "None", None, <<>>, TRUE)]
                 ELSE [w EXCEPT !.session = Some(sess),
                                !.ret = Ret("update_buffer", note_id, "Ok", "None",
                                            None, <<>>, TRUE)]

\* faulty variant of update_buffer: the snapshot is written first, and a failed
\* write leaves the session as it was
update_buffer_write_first(w, note_id, contents, t, io) ==
    LET noop == [w EXCEPT !.ret = Ret("update_buffer", note_id, "Ok", "None", None, <<>>, FALSE)]
    IN  IF w.session = None THEN noop
        ELSE IF Get(w.session).note_id # note_id THEN noop
        ELSE IF Get(w.session).buffer = contents THEN noop
        ELSE LET sess == mark_dirty_now([Get(w.session) EXCEPT !.buffer = contents], t)
             IN  IF cfg.crash_recovery /\ io # IoOk
                 THEN [w EXCEPT !.journal = write_snapshot(w.journal, sess, t, io),
                                !.ret = Ret("update_buffer", note_id, "Err", "None",
                                            None, <<>>, TRUE)]
                 ELSE [w EXCEPT !.session = Some(sess),
                                !.journal = IF cfg.crash_recovery
                                            THEN write_snapshot(w.journal, sess, t, io)
                                            ELSE w.journal,
                                !.ret = Ret("update_buffer", note_id, "Ok", "None",
                                            None, <<>>, TRUE)]

\* faulty variant of update_buffer: equal contents are written again
update_buffer_always_writes(w, note_id, contents, t, io) ==
    LET noop == [w EXCEPT !.ret = Ret("update_buffer", note_id, "Ok", "None", None, <<>>, FALSE)]
    IN  IF w.session = None THEN noop
        ELSE IF Get(w.session).note_id # note_id THEN noop
        ELSE LET sess == mark_dirty_now([Get(w.session) EXCEPT !.buffer = contents], t)
             IN  IF cfg.crash_recovery
                 THEN [w EXCEPT !.session = Some(sess),
                                !.journal = write_snapshot(w.journal, sess, t, io),
                                !.ret = Ret("update_buffer", note_id,
                                            IF io = IoOk THEN "Ok" ELSE "Err",
                                            "None", None, <<>>, TRUE)]
                 ELSE [w EXCEPT !.session = Some(sess),
                                !.ret = Ret("update_buffer", note_id, "Ok", "None",
                                            None, <<>>, TRUE)]

\* AutoSaveRuntime::update_buffer
update_buffer(w, note_id, contents, t, io) ==
    LET noop == [w EXCEPT !.ret = Ret("update_buffer", note_id, "Ok", "None", None, <<>>, FALSE)]
    IN  IF w.session = None THEN noop
        ELSE IF Get(w.session).note_id # note_id THEN noop
        ELSE IF Get(w.session).buffer = contents THEN noop
        ELSE LET sess == mark_dirty_now([Get(w.session) EXCEPT !.buffer = contents], t)
             IN  IF cfg.crash_recovery
                 THEN [w EXCEPT !.session = Some(sess),
                                !.journal = write_snapshot(w.journal, sess, t, io),
                                !.ret = Ret("update_buffer", note_id,
                                            IF io = IoOk THEN "Ok" ELSE "Err",
                                            "None", None, <<>>, TRUE)]
                 ELSE [w EXCEPT !.session = Some(sess),
                                !.ret = Ret("update_buffer", note_id, "Ok", "None",
                                            None, <<>>, TRUE)]

\* faulty variant of update_note_body: the body is not written
update_note_body_dropped(st, note_id, body) == st

\* StorageHandle::update_note_body, when the store accepts the write
update_note_body(st, note_id, body) == [st EXCEPT ![note_id] = body]

\* faulty variant of flush_internal: a rejected flush does not re-write the snapshot
flush_internal_no_rewrite(w, op, mode, t, storeOk, io) ==
    LET nothing == [w EXCEPT !.ret = Ret(op, 0, "Ok", "None", None, <<>>, FALSE)]
    IN  IF w.session = None THEN nothing
        ELSE
        LET sess == Get(w.session)
            ready == IsSome(sess.dirty_since) /\ t - Get(sess.dirty_since) >= cfg.debounce
        IN  IF ~sess.dirty THEN nothing
            ELSE IF mode = "Debounced" /\ ~ready THEN nothing
            ELSE IF storeOk
            THEN LET saved == [sess EXCEPT !.dirty = FALSE, !.dirty_since = None,
                                           !.dirty_since_wall = None,
                                           !.last_saved_at = Some(t),
                                           !.last_error = None]
                 IN  [w EXCEPT !.store = update_note_body(w.store, sess.note_id, sess.buffer),
                               !.session = Some(saved),
                               !.journal = IF cfg.crash_recovery
                                           THEN remove_snapshot_path(w.journal, sess.snapshot_path)
                                           ELSE w.journal,
                               !.ret = Ret(op, sess.note_id, "Ok", "Saved", None, <<>>, FALSE)]
            ELSE LET failed == [sess EXCEPT !.last_error =
                                    Some([message |-> "store", occurred_at |-> t])]
                 IN  IF cfg.crash_recovery
                     THEN [w EXCEPT !.session = Some(failed),
                                    !.ret = IF io = IoOk
                                            THEN Ret(op, sess.note_id, "Ok", "Error", None, <<>>, FALSE)
                                            ELSE Ret(op, sess.note_id, "Err", "None", None, <<>>, FALSE)]
                     ELSE [w EXCEPT !.session = Some(failed),
                                    !.ret = Ret(op, sess.note_id, "Ok", "Error", None, <<>>, FALSE)]

\* AutoSaveRuntime::flush_internal; op names the caller (poll or flush_now)
flush_internal(w, op, mode, t, storeOk, io) ==
    LET nothing == [w EXCEPT !.ret = Ret(op, 0, "Ok", "None", None, <<>>, FALSE)]
    IN  IF w.session = None THEN nothing
        ELSE
        LET sess == Get(w.session)
            ready == IsSome(sess.dirty_since) /\ t - Get(sess.dirty_since) >= cfg.debounce
        IN  IF ~sess.dirty THEN nothing
            ELSE IF mode = "Debounced" /\ ~ready THEN nothing
            ELSE IF storeOk
            THEN LET saved == [sess EXCEPT !.dirty = FALSE, !.dirty_since = None,
                                           !.dirty_since_wall = None,
                                           !.last_saved_at = Some(t),
                                           !.last_error = None]
                 IN  [w EXCEPT !.store = update_note_body(w.store, sess.note_id, sess.buffer),
                               !.session = Some(saved),
                               !.journal = IF cfg.crash_recovery
                                           THEN remove_snapshot_path(w.journal, sess.snapshot_path)
                                           ELSE w.journal,
                               !.ret = Ret(op, sess.note_id, "Ok", "Saved", None, <<>>, FALSE)]
            ELSE LET failed == [sess EXCEPT !.last_error =
                                    Some([message |-> "store", occurred_at |-> t])]
                 IN  IF cfg.crash_recovery
                     THEN [w EXCEPT !.session = Some(failed),
                                    !.journal = write_snapshot(w.journal, failed, t, io),
                                    !.ret = IF io = IoOk
                                            THEN Ret(op, sess.note_id, "Ok", "Error", None, <<>>, FALSE)
                                            ELSE Ret(op, sess.note_id, "Err", "None", None, <<>>, FALSE)]
                     ELSE [w EXCEPT !.session = Some(failed),
                                    !.ret = Ret(op, sess.note_id, "Ok", "Error", None, <<>>, FALSE)]

\* AutoSaveRuntime::maybe_prune_journal
maybe_prune_journal(w, t) ==
    IF ~cfg.crash_recovery THEN w
    ELSE IF t - w.last_prune < JOURNAL_PRUNE_INTERVAL THEN w
    ELSE [w EXCEPT !.journal = prune_journal(w.journal, t), !.last_prune = t]

\* faulty variants of poll: the enabled switch is not looked at; the flush
\* does not wait for the debounce window
poll_ignoring_enabled(w, t, storeOk, io) ==
    flush_internal(maybe_prune_journal(w, t), "poll", "Debounced", t, storeOk, io)

poll_immediate(w, t, storeOk, io) ==
    LET pruned == maybe_prune_journal(w, t)
    IN  IF ~cfg.enabled
        THEN [pruned EXCEPT !.ret = Ret("poll", 0, "Ok", "None", None, <<>>, FALSE)]
        ELSE flush_internal(pruned, "poll", "Immediate", t, storeOk, io)

\* AutoSaveRuntime::poll
poll(w, t, storeOk, io) ==
    LET pruned == maybe_prune_journal(w, t)
    IN  IF ~cfg.enabled
        THEN [pruned EXCEPT !.ret = Ret("poll", 0, "Ok", "None", None, <<>>, FALSE)]
        ELSE flush_internal(pruned, "poll", "Debounced", t, storeOk, io)

\* faulty variant of flush_now: the flush waits for the debounce window
flush_now_debounced(w, t, storeOk, io) ==
    flush_internal(w, "flush_now", "Debounced", t, storeOk, io)

\* AutoSaveRuntime::flush_now
flush_now(w, t, storeOk, io) == flush_internal(w, "flush_now", "Immediate", t, storeOk, io)

\* faulty variant of end_session: the session is dropped whatever its note
end_session_any_note(w, note_id, clear_snapshot) ==
    LET r == Ret("end_session", note_id, "Ok", "None", None, <<>>, clear_snapshot)
    IN  IF w.session = None THEN [w EXCEPT !.ret = r]
        ELSE [w EXCEPT !.session = None,
                       !.journal = IF clear_snapshot /\ cfg.crash_recovery
                                   THEN remove_snapshot_path(w.journal, Get(w.session).snapshot_path)
                                   ELSE w.journal,
                       !.ret = r]

\* AutoSaveRuntime::end_session
end_session(w, note_id, clear_snapshot) ==
    LET r == Ret("end_session", note_id, "Ok", "None", None, <<>>, clear_snapshot)
    IN  IF w.session = None THEN [w EXCEPT !.ret = r]
        ELSE IF Get(w.session).note_id # note_id THEN [w EXCEPT !.ret = r]
        ELSE [w EXCEPT !.session = None,
                       !.journal = IF clear_snapshot /\ cfg.crash_recovery
                                   THEN remove_snapshot_path(w.journal, Get(w.session).snapshot_path)
                                   ELSE w.journal,
                       !.ret = r]

\* faulty variant of discard_snapshot: the crash recovery switch is not looked at
discard_snapshot_unguarded(w, note_id) ==
    [w EXCEPT !.journal = remove_snapshot_path(w.journal, snapshot_path(note_id)),
              !.ret = Ret("discard_snapshot", note_id, "Ok", "None", None, <<>>, FALSE)]

\* AutoSaveRuntime::discard_snapshot
discard_snapshot(w, note_id) ==
    [w EXCEPT !.journal = IF ~cfg.crash_recovery THEN w.journal
                          ELSE remove_snapshot_path(w.journal, snapshot_path(note_id)),
              !.ret = Ret("discard_snapshot", note_id, "Ok", "None", None, <<>>, FALSE)]

(***************************************************************************)
(* list_recovery.  prune_journal has removed every temp file before the    *)
(* scan, so the scan meets only *.json files.                              *)
(***************************************************************************)
\* faulty variant of SnapshotBefore: oldest first
SnapshotBefore_oldest_first(a, b) ==
    \/ a.saved_at < b.saved_at
    \/ a.saved_at = b.saved_at /\ a.note_id < b.note_id

\* the comparator of snapshots.sort_by: a comes before b
SnapshotBefore(a, b) ==
    \/ a.saved_at > b.saved_at
    \/ a.saved_at = b.saved_at /\ a.note_id < b.note_id

RECURSIVE SortSnapshots(_)
SortSnapshots(S) ==
    IF S = {} THEN <<>>
    ELSE LET first == CHOOSE a \in S : \A b \in S \ {a} : SnapshotBefore(a, b)
         IN  <<first>> \o SortSnapshots(S \ {first})

\* faulty variant of list_recovery: a file that does not parse fails the scan
list_recovery_strict(w, t) ==
    IF ~cfg.crash_recovery
    THEN [w EXCEPT !.ret = Ret("list_recovery", 0, "Ok", "None", None, <<>>, FALSE)]
    ELSE LET pruned == prune_journal(w.journal, t)
             finals == {p \in Paths : p[2] = SNAPSHOT_EXTENSION /\ pruned[p].exists}
             good == {p \in finals : Parseable(pruned[p].data)}
         IN  IF finals # good
             THEN [w EXCEPT !.journal = pruned,
                            !.last_prune = t,
                            !.ret = Ret("list_recovery", 0, "Err", "None", None, <<>>, FALSE)]
             ELSE [w EXCEPT !.journal = pruned,
                            !.last_prune = t,
                            !.ret = Ret("list_recovery", 0, "Ok", "None", None,
                                        SortSnapshots({Parse(pruned[p].data) : p \in good}), FALSE)]

list_recovery(w, t) ==
    IF ~cfg.crash_recovery
    THEN [w EXCEPT !.ret = Ret("list_recovery", 0, "Ok", "None", None, <<>>, FALSE)]
    ELSE LET pruned == prune_journal(w.journal, t)
             finals == {p \in Paths : p[2] = SNAPSHOT_EXTENSION /\ pruned[p].exists}
             good == {p \in finals : Parseable(pruned[p].data)}
             scanned == [p \in Paths |-> IF p \in finals \ good THEN AbsentFile ELSE pruned[p]]
         IN  [w EXCEPT !.journal = scanned,
                       !.last_prune = t,
                       !.ret = Ret("list_recovery", 0, "Ok", "None", None,
                                   SortSnapshots({Parse(pruned[p].data) : p \in good}), FALSE)]

\* AutoSaveRuntime::new at time t on the journal directory the world holds
new_runtime(w, t) ==
    [w EXCEPT !.session = None,
              !.journal = prune_journal(w.journal, t),
              !.last_prune = t,
              !.ret = Ret("new", 0, "Ok", "None", None, <<>>, FALSE)]

\* the runtime is dropped: the session goes, the journal directory stays
dropped(w) == [w EXCEPT !.session = None]

(***************************************************************************)
(* EditorState.  A buffer is the sequence of the bytes of a UTF-8 string;  *)
(* the cursor is a byte offset.  The alphabet has a letter, the newline,   *)
(* the two-byte letter U+00E9 and the two-byte combining mark U+0301.      *)
(* Slicing or inserting at an offset inside a character panics; a panic    *)
(* is recorded in the field panicked and ends the editor's life.           *)
(***************************************************************************)
LETTER == "a"
NEWLINE == "\n"
E_ACUTE == "U+00E9"
COMBINING_ACUTE == "U+0301"
Chars == {LETTER, NEWLINE, E_ACUTE, COMBINING_ACUTE}

\* char::encode_utf8
encode_utf8(ch) ==
    IF ch = E_ACUTE THEN <<"C3", "A9">>
    ELSE IF ch = COMBINING_ACUTE THEN <<"CC", "81">>
    ELSE <<ch>>

ContinuationBytes == {"A9", "81"}

\* str::is_char_boundary
is_char_boundary(text, i) ==
    \/ i = 0
    \/ i = Len(text)
    \/ i < Len(text) /\ text[i + 1] \notin ContinuationBytes

\* the character that starts at offset i, and the one that ends there
CharAt(text, i) ==
    IF text[i + 1] = "C3" THEN E_ACUTE
    ELSE IF text[i + 1] = "CC" THEN COMBINING_ACUTE
    ELSE text[i + 1]
CharBefore(text, i) ==
    IF text[i] \in ContinuationBytes THEN CharAt(text, i - 2) ELSE text[i]

\* the strings: every byte sequence that decodes
RECURSIVE Strings(_)
Strings(len) ==
    IF len = 0 THEN {<<>>}
    ELSE {<<>>} \cup {encode_utf8(ch) \o s : ch \in Chars, s \in Strings(len - 1)}
StringsUpTo(len) == {s \in Strings(len) : Len(s) <= len}

\* the Grapheme_Cluster_Break property of a character
GraphemeClass(ch) ==
    IF ch = COMBINING_ACUTE THEN "Extend"
    ELSE IF ch = NEWLINE THEN "Control"
    ELSE "Other"

\* UnicodeSegmentation::grapheme_indices(true): the offsets at which the
\* extended grapheme clusters of text start (no break before Extend, except
\* at the start of the text and after a control character)
grapheme_indices(text) ==
    {i \in 0..(Len(text) - 1) :
        /\ is_char_boundary(text, i)
        /\ \/ i = 0
           \/ GraphemeClass(CharAt(text, i)) # "Extend"
           \/ GraphemeClass(CharBefore(text, i)) = "Control"}

SetMax(S) == CHOOSE x \in S : \A y \in S : y <= x
SetMin(S) == CHOOSE x \in S : \A y \in S : x <= y

\* prev_grapheme_boundary, for a cursor on a character boundary
prev_grapheme_boundary(text, cursor) ==
    IF cursor = 0 THEN 0
    ELSE SetMax(grapheme_indices(SubSeq(text, 1, cursor)))

\* next_grapheme_boundary, for a cursor on a character boundary
next_grapheme_boundary(text, cursor) ==
    IF cursor >= Len(text) THEN Len(text)
    ELSE LET rest == SubSeq(text, cursor + 1, Len(text))
             later == grapheme_indices(rest) \ {0}
         IN  cursor + (IF later = {} THEN Len(rest) ELSE SetMin(later))

\* text[..cursor] and text[cursor..], String::insert_str and String::insert
\* panic unless the cursor is on a character boundary
SlicePanics(text, cursor) == ~is_char_boundary(text, cursor)

Panicked(e) == [e EXCEPT !.panicked = TRUE]
Returns(e, ret) == [e |-> e, ret |-> ret]

\* EditorState::new
EditorState_new(note_id, buffer) ==
    [note_id |-> note_id, buffer |-> buffer, cursor |-> Len(buffer),
     dirty |-> FALSE, preferred_column |-> None, history |-> <<buffer>>,
     history_index |-> 0, panicked |-> FALSE]

\* faulty variant of mark_clean: the history is kept
mark_clean_flag_only(e) == [e EXCEPT !.dirty = FALSE]

\* EditorState::mark_clean
mark_clean(e) ==
    [e EXCEPT !.dirty = FALSE, !.history = <<e.buffer>>, !.history_index = 0]

\* faulty variant of record_history: the entries after the index are kept
record_history_no_truncate(e) ==
    IF e.history_index < Len(e.history) /\ e.history[e.history_index + 1] = e.buffer
    THEN e
    ELSE LET pushed == Append(e.history, e.buffer)
         IN  IF Len(pushed) > MAX_HISTORY
             THEN LET overflow == Len(pushed) - MAX_HISTORY
                      kept == SubSeq(pushed, overflow + 1, Len(pushed))
                  IN  [e EXCEPT !.history = kept, !.history_index = e.history_index + 1 - overflow]
             ELSE [e EXCEPT !.history = pushed, !.history_index = e.history_index + 1]

\* faulty variant of record_history: the current entry is overwritten
record_history_overwrite(e) ==
    [e EXCEPT !.history[e.history_index + 1] = e.buffer]

\* faulty variant of record_history: nothing is evicted
record_history_unbounded(e) ==
    IF e.history_index < Len(e.history) /\ e.history[e.history_index + 1] = e.buffer
    THEN e
    ELSE LET pushed == Append(SubSeq(e.history, 1, e.history_index + 1), e.buffer)
         IN  [e EXCEPT !.history = pushed, !.history_index = Len(pushed) - 1]

\* EditorState::record_history; history_index counts from 0
record_history(e) ==
    IF e.history_index < Len(e.history) /\ e.history[e.history_index + 1] = e.buffer
    THEN e
    ELSE LET pushed == Append(SubSeq(e.history, 1, e.history_index + 1), e.buffer)
         IN  IF Len(pushed) > MAX_HISTORY
             THEN LET overflow == Len(pushed) - MAX_HISTORY
                      kept == SubSeq(pushed, overflow + 1, Len(pushed))
                  IN  [e EXCEPT !.history = kept, !.history_index = Len(kept) - 1]
             ELSE [e EXCEPT !.history = pushed, !.history_index = Len(pushed) - 1]

\* faulty variant of after_edit: the edit is not recorded
after_edit_unrecorded(e) == [e EXCEPT !.dirty = TRUE]

\* EditorState::after_edit
after_edit(e) == record_history([e EXCEPT !.dirty = TRUE])

InsertAt(text, cursor, bytes) ==
    SubSeq(text, 1, cursor) \o bytes \o SubSeq(text, cursor + 1, Len(text))
Drain(text, from, to) ==
    SubSeq(text, 1, from) \o SubSeq(text, to + 1, Len(text))

\* EditorState::insert_char
insert_char(e, ch) ==
    IF SlicePanics(e.buffer, e.cursor) THEN Returns(Panicked(e), FALSE)
    ELSE LET encoded == encode_utf8(ch)
         IN  Returns(after_edit([e EXCEPT !.buffer = InsertAt(e.buffer, e.cursor, encoded),
                                          !.cursor = e.cursor + Len(encoded),
                                          !.preferred_column = None]), TRUE)

\* EditorState::insert_newline
insert_newline(e) ==
    IF SlicePanics(e.buffer, e.cursor) THEN Returns(Panicked(e), FALSE)
    ELSE Returns(after_edit([e EXCEPT !.buffer = InsertAt(e.buffer, e.cursor, <<NEWLINE>>),
                                      !.cursor = e.cursor + 1,
                                      !.preferred_column = Some(0)]), TRUE)

\* EditorState::backspace
backspace(e) ==
    IF e.cursor = 0 THEN Returns(e, FALSE)
    ELSE IF SlicePanics(e.buffer, e.cursor) THEN Returns(Panicked(e), FALSE)
    ELSE LET prev == prev_grapheme_boundary(e.buffer, e.cursor)
         IN  Returns(after_edit([e EXCEPT !.buffer = Drain(e.buffer, prev, e.cursor),
                                          !.cursor = prev,
                                          !.preferred_column = None]), TRUE)

\* EditorState::delete
delete(e) ==
    IF e.cursor >= Len(e.buffer) THEN Returns(e, FALSE)
    ELSE IF SlicePanics(e.buffer, e.cursor) THEN Returns(Panicked(e), FALSE)
    ELSE LET next == next_grapheme_boundary(e.buffer, e.cursor)
         IN  IF next = e.cursor THEN Returns(e, FALSE)
             ELSE Returns(after_edit([e EXCEPT !.buffer = Drain(e.buffer, e.cursor, next),
                                               !.preferred_column = None]), TRUE)

\* EditorState::move_left
move_left(e) ==
    IF e.cursor = 0 THEN Returns(e, FALSE)
    ELSE IF SlicePanics(e.buffer, e.cursor) THEN Returns(Panicked(e), FALSE)
    ELSE Returns([e EXCEPT !.cursor = prev_grapheme_boundary(e.buffer, e.cursor),
                           !.preferred_column = None], TRUE)

\* EditorState::move_right
move_right(e) ==
    IF e.cursor >= Len(e.buffer) THEN Returns(e, FALSE)
    ELSE IF SlicePanics(e.buffer, e.cursor) THEN Returns(Panicked(e), FALSE)
    ELSE LET next == next_grapheme_boundary(e.buffer, e.cursor)
         IN  IF next = e.cursor THEN Returns(e, FALSE)
             ELSE Returns([e EXCEPT !.cursor = next, !.preferred_column = None], TRUE)

\* line_start: the offset after the last newline of text[..cursor]
line_start(text, cursor) ==
    LET found == {i \in 1..cursor : text[i] = NEWLINE}
    IN  IF found = {} THEN 0 ELSE SetMax(found)

\* line_end: the offset of the first newline of text[cursor..]
line_end(text, cursor) ==
    LET found == {i \in (cursor + 1)..Len(text) : text[i] = NEWLINE}
    IN  IF found = {} THEN Len(text) ELSE SetMin(found) - 1

\* column_at: the number of grapheme clusters of text[line_start..cursor]
column_at(text, from, cursor) ==
    Cardinality(grapheme_indices(SubSeq(text, from + 1, cursor)))

\* position_for_column: the offset after the first `column` grapheme
\* clusters of the line that starts at `from`, the line end when the line
\* has fewer
position_for_column(text, from, column) ==
    LET to == line_end(text, from)
        starts == grapheme_indices(SubSeq(text, from + 1, to))
        count == IF column < Cardinality(starts) THEN column ELSE Cardinality(starts)
        position == IF count = Cardinality(starts) THEN to
                    ELSE from + (CHOOSE i \in starts : Cardinality({j \in starts : j < i}) = count)
    IN  IF column > count THEN to ELSE position

\* EditorState::move_home
move_home(e) ==
    IF SlicePanics(e.buffer, e.cursor) THEN Returns(Panicked(e), FALSE)
    ELSE LET start == line_start(e.buffer, e.cursor)
         IN  IF e.cursor = start THEN Returns(e, FALSE)
             ELSE Returns([e EXCEPT !.cursor = start, !.preferred_column = Some(0)], TRUE)

\* EditorState::move_end
move_end(e) ==
    IF SlicePanics(e.buffer, e.cursor) THEN Returns(Panicked(e), FALSE)
    ELSE LET end == line_end(e.buffer, e.cursor)
         IN  IF e.cursor = end THEN Returns(e, FALSE)
             ELSE Returns([e EXCEPT !.cursor = end,
                                    !.preferred_column =
                                        Some(column_at(e.buffer, line_start(e.buffer, end), end))],
                          TRUE)

\* EditorState::move_up
move_up(e) ==
    IF SlicePanics(e.buffer, e.cursor) THEN Returns(Panicked(e), FALSE)
    ELSE LET current_line_start == line_start(e.buffer, e.cursor)
             current_column == IF IsSome(e.preferred_column) THEN Get(e.preferred_column)
                               ELSE column_at(e.buffer, current_line_start, e.cursor)
         IN  IF current_line_start = 0
             THEN IF e.cursor = 0 THEN Returns(e, FALSE)
                  ELSE Returns([e EXCEPT !.cursor = 0,
                                         !.preferred_column = Some(current_column)], TRUE)
             ELSE LET prev_line_end == current_line_start - 1
                      prev_line_start == line_start(e.buffer, prev_line_end)
                      target == position_for_column(e.buffer, prev_line_start, current_column)
                  IN  IF e.cursor = target THEN Returns(e, FALSE)
                      ELSE Returns([e EXCEPT !.cursor = target,
                                             !.preferred_column = Some(current_column)], TRUE)

\* faulty variant of move_down: the column is not remembered
move_down_forgets_column(e) ==
    IF SlicePanics(e.buffer, e.cursor) THEN Returns(Panicked(e), FALSE)
    ELSE LET current_line_start == line_start(e.buffer, e.cursor)
             current_column == IF IsSome(e.preferred_column) THEN Get(e.preferred_column)
                               ELSE column_at(e.buffer, current_line_start, e.cursor)
             current_line_end == line_end(e.buffer, e.cursor)
         IN  IF current_line_end = Len(e.buffer)
             THEN IF e.cursor = Len(e.buffer) THEN Returns(e, FALSE)
                  ELSE Returns([e EXCEPT !.cursor = Len(e.buffer),
                                         !.preferred_column = None], TRUE)
             ELSE LET target == position_for_column(e.buffer, current_line_end + 1, current_column)
                  IN  IF e.cursor = target THEN Returns(e, FALSE)
                      ELSE Returns([e EXCEPT !.cursor = target,
                                             !.preferred_column = None], TRUE)

\* EditorState::move_down
move_down(e) ==
    IF SlicePanics(e.buffer, e.cursor) THEN Returns(Panicked(e), FALSE)
    ELSE LET current_line_start == line_start(e.buffer, e.cursor)
             current_column == IF IsSome(e.preferred_column) THEN Get(e.preferred_column)
                               ELSE column_at(e.buffer, current_line_start, e.cursor)
             current_line_end == line_end(e.buffer, e.cursor)
         IN  IF current_line_end = Len(e.buffer)
             THEN IF e.cursor = Len(e.buffer) THEN Returns(e, FALSE)
                  ELSE Returns([e EXCEPT !.cursor = Len(e.buffer),
                                         !.preferred_column = Some(current_column)], TRUE)
             ELSE LET target == position_for_column(e.buffer, current_line_end + 1, current_column)
                  IN  IF e.cursor = target THEN Returns(e, FALSE)
                      ELSE Returns([e EXCEPT !.cursor = target,
                                             !.preferred_column = Some(current_column)], TRUE)

\* text[from..to].trim().is_empty(): the newline is the white space of the
\* alphabet
IsBlank(text, from, to) == \A i \in (from + 1)..to : text[i] = NEWLINE

\* the loops of move_word_left: idx goes back over the grapheme clusters
\* that are blank (or, with blank = FALSE, that are not)
RECURSIVE SkipLeft(_, _, _)
SkipLeft(text, idx, blank) ==
    IF idx = 0 THEN 0
    ELSE LET prev == prev_grapheme_boundary(text, idx)
         IN  IF IsBlank(text, prev, idx) = blank THEN SkipLeft(text, prev, blank)
             ELSE idx

\* the loops of move_word_right
RECURSIVE SkipRight(_, _, _)
SkipRight(text, idx, blank) ==
    IF idx >= Len(text) THEN idx
    ELSE LET next == next_grapheme_boundary(text, idx)
         IN  IF IsBlank(text, idx, next) = blank THEN SkipRight(text, next, blank)
             ELSE idx

\* EditorState::move_word_left
move_word_left(e) ==
    IF e.cursor = 0 THEN Returns(e, FALSE)
    ELSE IF SlicePanics(e.buffer, e.cursor) THEN Returns(Panicked(e), FALSE)
    ELSE LET idx == SkipLeft(e.buffer, SkipLeft(e.buffer, e.cursor, TRUE), FALSE)
         IN  Returns([e EXCEPT !.cursor = idx, !.preferred_column = None], TRUE)

\* EditorState::move_word_right
move_word_right(e) ==
    IF e.cursor >= Len(e.buffer) THEN Returns(e, FALSE)
    ELSE IF SlicePanics(e.buffer, e.cursor) THEN Returns(Panicked(e), FALSE)
    ELSE LET idx == SkipRight(e.buffer,
                              SkipRight(e.buffer, SkipRight(e.buffer, e.cursor, TRUE), FALSE),
                              TRUE)
         IN  IF idx = e.cursor THEN Returns(e, FALSE)
             ELSE Returns([e EXCEPT !.cursor = IF idx < Len(e.buffer) THEN idx
                                                ELSE Len(e.buffer),
                                    !.preferred_column = None], TRUE)

\* faulty variant of restore_history_snapshot: dirty is left as it was
restore_history_snapshot_keeps_dirty(e) ==
    IF e.history_index >= Len(e.history) THEN e
    ELSE LET snapshot == e.history[e.history_index + 1]
         IN  [e EXCEPT !.buffer = snapshot,
                       !.cursor = IF e.cursor > Len(snapshot) THEN Len(snapshot) ELSE e.cursor,
                       !.preferred_column = None]

\* EditorState::restore_history_snapshot
restore_history_snapshot(e) ==
    IF e.history_index >= Len(e.history) THEN e
    ELSE LET snapshot == e.history[e.history_index + 1]
         IN  [e EXCEPT !.buffer = snapshot,
                       !.cursor = IF e.cursor > Len(snapshot) THEN Len(snapshot) ELSE e.cursor,
                       !.dirty = e.history_index # 0,
                       !.preferred_column = None]

\* EditorState::undo
undo(e) ==
    IF e.history_index = 0 THEN Returns(e, FALSE)
    ELSE Returns(restore_history_snapshot([e EXCEPT !.history_index = e.history_index - 1]), TRUE)

\* faulty variant of redo: the snapshot is not restored
redo_index_only(e) ==
    IF e.history_index + 1 >= Len(e.history) THEN Returns(e, FALSE)
    ELSE Returns([e EXCEPT !.history_index = e.history_index + 1], TRUE)

\* EditorState::redo
redo(e) ==
    IF e.history_index + 1 >= Len(e.history) THEN Returns(e, FALSE)
    ELSE Returns(restore_history_snapshot([e EXCEPT !.history_index = e.history_index + 1]), TRUE)

(***************************************************************************)
(* App: the handlers that tie the editor to the autosave runtime.  An app  *)
(* world is the runtime's world, AppState.editor, the body AppState.notes  *)
(* holds for each note, and the value the handler returned.                *)
(***************************************************************************)
AppWorld == [rt |-> World, editor |-> editor, notes |-> notes, ret |-> FALSE]

\* AppState::on_autosave_saved
on_autosave_saved(a, note_id) ==
    IF a.editor # None /\ Get(a.editor).note_id = note_id
    THEN [a EXCEPT !.editor = Some(mark_clean(Get(a.editor)))]
    ELSE a

\* App::handle_autosave_event, on what the runtime returned
handle_autosave_event(a, r) ==
    IF r.res = "Ok" /\ r.event = "Saved" THEN on_autosave_saved(a, r.note) ELSE a

\* App::on_tick
on_tick(a, t, storeOk, io) ==
    LET polled == poll(a.rt, t, storeOk, io)
    IN  handle_autosave_event([a EXCEPT !.rt = polled], polled.ret)

\* App::handle_manual_save
handle_manual_save(a, t, storeOk, io) ==
    IF a.editor = None THEN a
    ELSE LET flushed == flush_now(a.rt, t, storeOk, io)
         IN  handle_autosave_event([a EXCEPT !.rt = flushed], flushed.ret)

\* AppState::apply_editor_preview
apply_editor_preview(a) ==
    IF a.editor = None THEN a
    ELSE [a EXCEPT !.notes[Get(a.editor).note_id] = Get(a.editor).buffer]

\* faulty variant of queue_autosave_update: nothing is passed on
queue_autosave_update_skipped(a, t, io) == a

\* App::queue_autosave_update: an Err of update_buffer is logged
queue_autosave_update(a, t, io) ==
    IF a.editor = None THEN a
    ELSE [a EXCEPT !.rt = update_buffer(a.rt, Get(a.editor).note_id,
                                        Get(a.editor).buffer, t, io)]

\* App::apply_editor_change, App::editor_undo, App::editor_redo; r is what
\* the editor operation makes of the open editor
apply_editor_change(a, r, t, io) ==
    IF a.editor = None THEN [a EXCEPT !.ret = FALSE]
    ELSE LET changed == [a EXCEPT !.editor = Some(r.e), !.ret = r.ret]
         IN  IF r.ret THEN queue_autosave_update(apply_editor_preview(changed), t, io)
             ELSE changed

\* App::start_editing_internal, called by App::handle_enter_edit
start_editing_internal(a, note_id, t) ==
    LET started == start_session(a.rt, note_id, a.notes[note_id], t)
        recovered == started.ret.snap
        active_body == IF IsSome(recovered) THEN Get(recovered).body ELSE a.notes[note_id]
        begun == [EditorState_new(note_id, active_body) EXCEPT !.dirty = IsSome(recovered)]
    IN  IF started.ret.res = "Err" THEN [a EXCEPT !.rt = started, !.ret = FALSE]
        ELSE [a EXCEPT !.rt = started,
                       !.editor = Some(begun),
                       !.notes[note_id] = active_body,
                       !.ret = TRUE]

\* the final flush of exit_editing has failed
FlushFailed(r) == r.res = "Err" \/ r.event = "Error"

\* faulty variant of exit_editing: an Error event of the final flush is ignored
exit_editing_ignoring_error(a, t, storeOk, io) ==
    IF a.editor = None THEN [a EXCEPT !.ret = TRUE]
    ELSE LET note_id == Get(a.editor).note_id
             flushed == flush_now(a.rt, t, storeOk, io)
             handled == IF Get(a.editor).dirty
                        THEN handle_autosave_event([a EXCEPT !.rt = flushed], flushed.ret)
                        ELSE a
         IN  IF Get(a.editor).dirty /\ flushed.ret.res = "Err"
             THEN [handled EXCEPT !.ret = FALSE]
             ELSE [handled EXCEPT !.rt = end_session(handled.rt, note_id, TRUE),
                                  !.editor = None,
                                  !.ret = TRUE]

\* App::exit_editing
exit_editing(a, t, storeOk, io) ==
    IF a.editor = None THEN [a EXCEPT !.ret = TRUE]
    ELSE LET note_id == Get(a.editor).note_id
             flushed == flush_now(a.rt, t, storeOk, io)
             handled == IF Get(a.editor).dirty
                        THEN handle_autosave_event([a EXCEPT !.rt = flushed], flushed.ret)
                        ELSE a
         IN  IF Get(a.editor).dirty /\ FlushFailed(flushed.ret)
             THEN [handled EXCEPT !.ret = FALSE]
             ELSE [handled EXCEPT !.rt = end_session(handled.rt, note_id, TRUE),
                                  !.editor = None,
                                  !.ret = TRUE]

\* App::new in a fresh process: the notes are loaded from the store, the
\* runtime is constructed and the recovery list is taken
App_new(a, t) ==
    [a EXCEPT !.rt = list_recovery(new_runtime(a.rt, t), t),
              !.editor = None,
              !.notes = a.rt.store,
              !.ret = TRUE]

(***************************************************************************)
(* The runtime-level specifications: a caller drives the runtime's public  *)
(* operations in any order, time passes, the runtime may be dropped and    *)
(* constructed again on the same journal directory.  Under Spec the        *)
(* caller edits every note and the journal's file system never fails;      *)
(* under SpecFaulty the caller edits note 1 and a snapshot write may fail  *)
(* or be cut short by the death of the process.                            *)
(***************************************************************************)
\* the configurations: a field no code path reads under the others is 0
Configs ==
    {c \in [enabled : BOOLEAN, crash_recovery : BOOLEAN,
            retention : Retentions, debounce : Debounces] :
        /\ ~c.crash_recovery => c.retention = 0
        /\ ~c.enabled => c.debounce = 0}

NoTrail == [valid |-> TRUE, n |-> 0, before |-> <<>>, base |-> <<>>]

NoPending == [phase |-> "none", note |-> 0, body |-> <<>>, at |-> 0]

InitRuntime ==
    /\ pending = NoPending
    /\ cfg \in Configs
    /\ alive = TRUE
    /\ session = None
    /\ last_prune = 0
    /\ journal = [p \in Paths |-> AbsentFile]
    /\ store = [n \in Notes |-> <<"a">>]
    /\ now = 0

Init ==
    /\ InitRuntime
    /\ editable = Notes
    /\ faults_left = 0
    /\ quiet = FALSE
    /\ editor = None
    /\ trail = NoTrail
    /\ notes = store
    /\ exit_ret = "none"

InitFaulty ==
    /\ InitRuntime
    /\ editable = {1}
    /\ faults_left = MaxFaults
    /\ quiet = FALSE
    /\ editor = None
    /\ trail = NoTrail
    /\ notes = store
    /\ exit_ret = "none"

\* the world after a call becomes the state
Becomes(w) ==
    /\ session' = w.session
    /\ last_prune' = w.last_prune
    /\ journal' = w.journal
    /\ store' = w.store

\* the outcomes of a snapshot write that a call may meet
IoChoices == IF faults_left > 0 THEN IoOutcomes ELSE {IoOk}
Fault(io) == IF io = IoOk THEN 0 ELSE 1

\* update_buffer(note_id, contents) will write a snapshot
UpdateWrites(note_id, contents) ==
    /\ cfg.crash_recovery
    /\ session # None
    /\ Get(session).note_id = note_id
    /\ Get(session).buffer # contents

\* a flush of the given kind will call the store
FlushCommits(mode) ==
    /\ session # None
    /\ Get(session).dirty
    /\ mode = "Debounced" =>
          /\ cfg.enabled
          /\ IsSome(Get(session).dirty_since)
          /\ now - Get(Get(session).dirty_since) >= cfg.debounce

Tick ==
    /\ now < MaxTime
    /\ now' = now + 1
    /\ UNCHANGED <<cfg, alive, session, last_prune, journal, store, editable,
                   faults_left, quiet, pending>>
    /\ UNCHANGED edVars

StartSession ==
    /\ alive
    /\ \E n \in editable, initial_body \in Bodies :
          Becomes(start_session(World, n, initial_body, now))
    /\ pending' = NoPending
    /\ UNCHANGED <<cfg, alive, now, editable, faults_left, quiet>>
    /\ UNCHANGED edVars

UpdateBuffer ==
    /\ alive
    /\ \E n \in Notes, contents \in Bodies :
        \E io \in IF UpdateWrites(n, contents) THEN IoChoices ELSE {IoOk} :
          /\ Becomes(update_buffer(World, n, contents, now, io))
          /\ faults_left' = faults_left - Fault(io)
          /\ pending' = IF UpdateWrites(n, contents) /\ io = IoOk
                        THEN [phase |-> "updated", note |-> n, body |-> contents,
                              at |-> now]
                        ELSE NoPending
    /\ UNCHANGED <<cfg, alive, now, editable, quiet>>
    /\ UNCHANGED edVars

\* a flush: the store accepts or rejects, and a rejected flush rewrites the snapshot
Flush(mode) ==
    \E storeOk \in IF FlushCommits(mode) THEN BOOLEAN ELSE {TRUE} :
    \E io \in IF FlushCommits(mode) /\ ~storeOk /\ cfg.crash_recovery
               THEN IoChoices ELSE {IoOk} :
       /\ Becomes(IF mode = "Debounced" THEN poll(World, now, storeOk, io)
                                        ELSE flush_now(World, now, storeOk, io))
       /\ faults_left' = faults_left - Fault(io)

Poll ==
    /\ alive
    /\ Flush("Debounced")
    /\ pending' = NoPending
    /\ UNCHANGED <<cfg, alive, now, editable, quiet>>
    /\ UNCHANGED edVars

FlushNow ==
    /\ alive
    /\ Flush("Immediate")
    /\ pending' = NoPending
    /\ UNCHANGED <<cfg, alive, now, editable, quiet>>
    /\ UNCHANGED edVars

EndSession ==
    /\ alive
    /\ \E n \in Notes, clear_snapshot \in BOOLEAN :
          Becomes(end_session(World, n, clear_snapshot))
    /\ pending' = NoPending
    /\ UNCHANGED <<cfg, alive, now, editable, faults_left, quiet>>
    /\ UNCHANGED edVars

DiscardSnapshot ==
    /\ alive
    /\ \E n \in Notes : Becomes(discard_snapshot(World, n))
    /\ pending' = NoPending
    /\ UNCHANGED <<cfg, alive, now, editable, faults_left, quiet>>
    /\ UNCHANGED edVars

ListRecovery ==
    /\ alive
    /\ Becomes(list_recovery(World, now))
    /\ pending' = IF pending.phase = "fresh" THEN pending ELSE NoPending
    /\ UNCHANGED <<cfg, alive, now, editable, faults_left, quiet>>
    /\ UNCHANGED edVars

\* the runtime is dropped (the process exits or is killed between operations)
Drop ==
    /\ alive
    /\ alive' = FALSE
    /\ Becomes(dropped(World))
    /\ pending' = IF pending.phase = "updated" THEN [pending EXCEPT !.phase = "dropped"]
                  ELSE NoPending
    /\ UNCHANGED <<cfg, now, editable, faults_left, quiet>>
    /\ UNCHANGED edVars

\* the process is killed inside write_snapshot, called by update_buffer or by
\* a flush the store rejected: the temp file is cut short, or complete and
\* not yet renamed
CrashInWrite ==
    /\ alive
    /\ cfg.crash_recovery
    /\ session # None
    /\ faults_left > 0
    /\ \E contents \in Bodies, io \in IoOutcomes \ {IoOk} :
          LET sess == [Get(session) EXCEPT !.buffer = contents]
          IN  /\ (contents = Get(session).buffer => Get(session).dirty)
              /\ journal' = write_snapshot(journal, sess, now, io)
    /\ alive' = FALSE
    /\ session' = None
    /\ faults_left' = faults_left - 1
    /\ pending' = NoPending
    /\ UNCHANGED <<cfg, last_prune, store, now, editable, quiet>>
    /\ UNCHANGED edVars

\* AutoSaveRuntime::new on the same journal directory
New ==
    /\ ~alive
    /\ alive' = TRUE
    /\ Becomes(new_runtime(World, now))
    /\ pending' = IF pending.phase = "dropped" THEN [pending EXCEPT !.phase = "fresh"]
                  ELSE NoPending
    /\ UNCHANGED <<cfg, now, editable, faults_left, quiet>>
    /\ UNCHANGED edVars

Next ==
    \/ Tick
    \/ StartSession
    \/ UpdateBuffer
    \/ Poll
    \/ FlushNow
    \/ EndSession
    \/ DiscardSnapshot
    \/ ListRecovery
    \/ Drop
    \/ New

NextFaulty ==
    \/ Next
    \/ CrashInWrite

Spec == Init /\ [][Next]_vars

SpecFaulty == InitFaulty /\ [][NextFaulty]_vars

(***************************************************************************)
(* The damaged-journal specification: autosave and crash recovery are on   *)
(* with no debounce, the caller edits every note, and a snapshot file of   *)
(* the journal directory may be damaged from outside, so that it no longer *)
(* parses.  The program's own writes do not fail.                          *)
(***************************************************************************)
InitCorrupt ==
    /\ InitRuntime
    /\ cfg.crash_recovery
    /\ cfg.enabled
    /\ cfg.debounce = 0
    /\ editable = Notes
    /\ faults_left = 0
    /\ quiet = FALSE
    /\ editor = None
    /\ trail = NoTrail
    /\ notes = store
    /\ exit_ret = "none"

\* the fields of a record that a damaged file keeps
CorruptCuts == {0, 3}

\* a readable snapshot file is cut short on disk: read_snapshot_path fails
\* on it from now on
Corrupt ==
    /\ \E n \in Notes, k \in CorruptCuts :
          /\ journal[snapshot_path(n)].exists
          /\ Parseable(journal[snapshot_path(n)].data)
          /\ journal' = [journal EXCEPT ![snapshot_path(n)] =
                            FileOf(SubSeq(journal[snapshot_path(n)].data, 1, k))]
    /\ pending' = NoPending
    /\ UNCHANGED <<cfg, alive, session, last_prune, store, now, editable,
                   faults_left, quiet>>
    /\ UNCHANGED edVars

NextCorrupt ==
    \/ Next
    \/ Corrupt

SpecCorrupt == InitCorrupt /\ [][NextCorrupt]_vars

(***************************************************************************)
(* The runtime with crash recovery switched off, on a journal directory    *)
(* in which an earlier run with crash recovery on has left files: for      *)
(* each note possibly a snapshot saved at time 0, and possibly a temp      *)
(* file cut short.                                                         *)
(***************************************************************************)
OffConfigs ==
    {c \in [enabled : BOOLEAN, crash_recovery : {FALSE},
            retention : Retentions, debounce : Debounces] :
        ~c.enabled => c.debounce = 0}

LeftFiles(p) ==
    IF p[2] = SNAPSHOT_EXTENSION
    THEN {AbsentFile,
          FileOf(Serialize([note_id |-> p[1], saved_at |-> 0, body |-> <<"b">>]))}
    ELSE {AbsentFile, FileOf(<<"{">>)}

LeftJournals ==
    {jr \in [Paths -> UNION {LeftFiles(p) : p \in Paths}] :
        \A p \in Paths : jr[p] \in LeftFiles(p)}

InitOff ==
    /\ pending = NoPending
    /\ cfg \in OffConfigs
    /\ alive = TRUE
    /\ session = None
    /\ last_prune = 0
    /\ journal \in LeftJournals
    /\ store = [n \in Notes |-> <<"a">>]
    /\ now = 0
    /\ editable = {1}
    /\ faults_left = 0
    /\ quiet = FALSE
    /\ editor = None
    /\ trail = NoTrail
    /\ notes = store
    /\ exit_ret = "none"

SpecOff == InitOff /\ [][Next]_vars

(***************************************************************************)
(* The retry specification: autosave is enabled, the caller edits note 1,  *)
(* then stops editing and only lets the event loop tick.  The clock        *)
(* advances, and a poll whose store write is accepted cannot be refused    *)
(* for ever.  An edit is made only while the clock can still reach the     *)
(* end of its debounce window.  Snapshots are retained without limit.      *)
(***************************************************************************)
InitLive ==
    /\ InitRuntime
    /\ cfg.enabled
    /\ cfg.retention = 0
    /\ editable = {1}
    /\ faults_left = MaxFaults
    /\ quiet = FALSE
    /\ editor = None
    /\ trail = NoTrail
    /\ notes = store
    /\ exit_ret = "none"

UpdateBufferInTime ==
    /\ now + cfg.debounce <= MaxTime
    /\ UpdateBuffer

\* the caller stops editing
Settle ==
    /\ alive
    /\ ~quiet
    /\ quiet' = TRUE
    /\ UNCHANGED <<cfg, alive, session, last_prune, journal, store, now, editable,
                   faults_left, pending>>
    /\ UNCHANGED edVars

\* a poll that flushes, the store accepting the write
PollAccepted ==
    /\ alive
    /\ FlushCommits("Debounced")
    /\ Becomes(poll(World, now, TRUE, IoOk))
    /\ pending' = NoPending
    /\ UNCHANGED <<cfg, alive, now, editable, faults_left, quiet>>
    /\ UNCHANGED edVars

Editing ==
    \/ StartSession
    \/ UpdateBufferInTime
    \/ FlushNow
    \/ EndSession
    \/ Settle

NextLive ==
    \/ Tick
    \/ Poll
    \/ ~quiet /\ Editing

SpecLive ==
    /\ InitLive
    /\ [][NextLive]_vars
    /\ WF_vars(Tick)
    /\ WF_vars(PollAccepted)


(***************************************************************************)
(* The editor specification: an editor is opened on a note and driven by   *)
(* its editing, cursor, undo and redo operations in any order; the         *)
(* autosave runtime is left alone.                                         *)
(***************************************************************************)
rtVars == <<cfg, alive, session, last_prune, journal, store, now, editable,
            faults_left, quiet, pending>>

InitEditor ==
    /\ InitRuntime
    /\ cfg = [enabled |-> TRUE, crash_recovery |-> TRUE, retention |-> 0, debounce |-> 0]
    /\ editable = {1}
    /\ faults_left = 0
    /\ quiet = FALSE
    /\ \E buffer \in StringsUpTo(InitLen) : editor = Some(EditorState_new(1, buffer))
    /\ trail = [NoTrail EXCEPT !.base = Get(editor).buffer]
    /\ notes = store
    /\ exit_ret = "none"

Editable == editor # None /\ ~Get(editor).panicked

\* the trail after a call of an editing operation
Edited(r) ==
    IF r.ret /\ ~r.e.panicked
    THEN [trail EXCEPT !.n = IF trail.n > MAX_HISTORY THEN trail.n ELSE trail.n + 1,
                       !.before = Get(editor).buffer]
    ELSE trail
Rewound(r) ==
    IF r.ret THEN [valid |-> FALSE, n |-> 0, before |-> <<>>, base |-> trail.base] ELSE trail

InsertChar ==
    /\ Editable
    /\ \E ch \in Chars \ {NEWLINE} :
          /\ Len(Get(editor).buffer) + Len(encode_utf8(ch)) <= MaxLen
          /\ editor' = Some(insert_char(Get(editor), ch).e)
          /\ trail' = Edited(insert_char(Get(editor), ch))
    /\ UNCHANGED rtVars
    /\ UNCHANGED appVars

InsertNewline ==
    /\ Editable
    /\ Len(Get(editor).buffer) + 1 <= MaxLen
    /\ editor' = Some(insert_newline(Get(editor)).e)
    /\ trail' = Edited(insert_newline(Get(editor)))
    /\ UNCHANGED rtVars
    /\ UNCHANGED appVars

Backspace ==
    /\ Editable
    /\ editor' = Some(backspace(Get(editor)).e)
    /\ trail' = Edited(backspace(Get(editor)))
    /\ UNCHANGED rtVars
    /\ UNCHANGED appVars

Delete ==
    /\ Editable
    /\ editor' = Some(delete(Get(editor)).e)
    /\ trail' = Edited(delete(Get(editor)))
    /\ UNCHANGED rtVars
    /\ UNCHANGED appVars

MoveLeft ==
    /\ Editable
    /\ editor' = Some(move_left(Get(editor)).e)
    /\ UNCHANGED trail
    /\ UNCHANGED rtVars
    /\ UNCHANGED appVars

MoveRight ==
    /\ Editable
    /\ editor' = Some(move_right(Get(editor)).e)
    /\ UNCHANGED trail
    /\ UNCHANGED rtVars
    /\ UNCHANGED appVars

MoveWordLeft ==
    /\ Editable
    /\ editor' = Some(move_word_left(Get(editor)).e)
    /\ UNCHANGED trail
    /\ UNCHANGED rtVars
    /\ UNCHANGED appVars

MoveWordRight ==
    /\ Editable
    /\ editor' = Some(move_word_right(Get(editor)).e)
    /\ UNCHANGED trail
    /\ UNCHANGED rtVars
    /\ UNCHANGED appVars

Undo ==
    /\ Editable
    /\ editor' = Some(undo(Get(editor)).e)
    /\ trail' = Rewound(undo(Get(editor)))
    /\ UNCHANGED rtVars
    /\ UNCHANGED appVars

Redo ==
    /\ Editable
    /\ editor' = Some(redo(Get(editor)).e)
    /\ trail' = Rewound(redo(Get(editor)))
    /\ UNCHANGED rtVars
    /\ UNCHANGED appVars

MarkClean ==
    /\ Editable
    /\ editor' = Some(mark_clean(Get(editor)))
    /\ trail' = [NoTrail EXCEPT !.base = Get(editor).buffer]
    /\ UNCHANGED rtVars
    /\ UNCHANGED appVars

NextEditor ==
    \/ InsertChar
    \/ InsertNewline
    \/ Backspace
    \/ Delete
    \/ MoveLeft
    \/ MoveRight
    \/ MoveWordLeft
    \/ MoveWordRight
    \/ Undo
    \/ Redo
    \/ MarkClean

SpecEditor == InitEditor /\ [][NextEditor]_vars

(***************************************************************************)
(* The editor under the cursor keys alone, on buffers of several lines.   *)
(***************************************************************************)
NavLen == 5
NavSteps == 3

InitNav ==
    /\ InitRuntime
    /\ cfg = [enabled |-> TRUE, crash_recovery |-> TRUE, retention |-> 0, debounce |-> 0]
    /\ editable = {1}
    /\ faults_left = 0
    /\ quiet = FALSE
    /\ \E buffer \in StringsUpTo(NavLen) : editor = Some(EditorState_new(1, buffer))
    /\ trail = [NoTrail EXCEPT !.base = Get(editor).buffer]
    /\ notes = store
    /\ exit_ret = "none"

MoveHome ==
    /\ Editable
    /\ editor' = Some(move_home(Get(editor)).e)
    /\ UNCHANGED trail
    /\ UNCHANGED rtVars
    /\ UNCHANGED appVars

MoveEnd ==
    /\ Editable
    /\ editor' = Some(move_end(Get(editor)).e)
    /\ UNCHANGED trail
    /\ UNCHANGED rtVars
    /\ UNCHANGED appVars

MoveUp ==
    /\ Editable
    /\ editor' = Some(move_up(Get(editor)).e)
    /\ UNCHANGED trail
    /\ UNCHANGED rtVars
    /\ UNCHANGED appVars

MoveDown ==
    /\ Editable
    /\ editor' = Some(move_down(Get(editor)).e)
    /\ UNCHANGED trail
    /\ UNCHANGED rtVars
    /\ UNCHANGED appVars

NextNav ==
    \/ MoveLeft
    \/ MoveRight
    \/ MoveHome
    \/ MoveEnd
    \/ MoveUp
    \/ MoveDown

SpecNav == InitNav /\ [][NextNav]_vars

(***************************************************************************)
(* The application specification: the user opens note 1, types, undoes,    *)
(* saves and leaves edit mode in any order while the event loop ticks;     *)
(* the store may reject a write, a snapshot write may fail, and the        *)
(* process may be killed and started again.  exit_ret is what the last     *)
(* handler returned if it was exit_editing.                                *)
(***************************************************************************)
AppKeys == {LETTER}
AppMaxLen == 1
AppMaxTime == 1

InitApp ==
    /\ InitRuntime
    /\ cfg.retention = 0
    /\ editable = {1}
    /\ faults_left = MaxFaults
    /\ quiet = FALSE
    /\ editor = None
    /\ trail = NoTrail
    /\ notes = store
    /\ exit_ret = "none"

\* the app world after a handler becomes the state
AppBecomes(a) ==
    /\ Becomes(a.rt)
    /\ editor' = a.editor
    /\ notes' = a.notes

AppRunning == alive /\ (IF editor = None THEN TRUE ELSE ~Get(editor).panicked)
\* what the store may answer to a flush of the given kind, and what the
\* snapshot re-write of a rejected flush may meet
StoreChoices(mode) == IF FlushCommits(mode) THEN BOOLEAN ELSE {TRUE}
RewriteChoices(mode, storeOk) ==
    IF FlushCommits(mode) /\ ~storeOk /\ cfg.crash_recovery THEN IoChoices ELSE {IoOk}

OnTick ==
    /\ AppRunning
    /\ \E storeOk \in StoreChoices("Debounced") :
       \E io \in RewriteChoices("Debounced", storeOk) :
          /\ AppBecomes(on_tick(AppWorld, now, storeOk, io))
          /\ faults_left' = faults_left - Fault(io)
    /\ exit_ret' = "none"
    /\ UNCHANGED <<cfg, alive, now, editable, quiet, pending, trail>>

HandleManualSave ==
    /\ AppRunning
    /\ editor # None
    /\ \E storeOk \in StoreChoices("Immediate") :
       \E io \in RewriteChoices("Immediate", storeOk) :
          /\ AppBecomes(handle_manual_save(AppWorld, now, storeOk, io))
          /\ faults_left' = faults_left - Fault(io)
    /\ exit_ret' = "none"
    /\ UNCHANGED <<cfg, alive, now, editable, quiet, pending, trail>>

HandleEnterEdit ==
    /\ AppRunning
    /\ editor = None
    /\ \E n \in editable : AppBecomes(start_editing_internal(AppWorld, n, now))
    /\ exit_ret' = "none"
    /\ UNCHANGED <<cfg, alive, now, editable, faults_left, quiet, pending, trail>>

\* a key that edits the buffer, Ctrl-z or Ctrl-y
EditorChange(r) ==
    /\ AppRunning
    /\ editor # None
    /\ \E io \in (IF r.ret /\ UpdateWrites(Get(editor).note_id, r.e.buffer)
                    THEN IoChoices ELSE {IoOk}) :
          /\ AppBecomes(apply_editor_change(AppWorld, r, now, io))
          /\ faults_left' = faults_left - Fault(io)
    /\ exit_ret' = "none"
    /\ UNCHANGED <<cfg, alive, now, editable, quiet, pending, trail>>

KeyChar ==
    /\ editor # None
    /\ \E ch \in AppKeys :
          /\ Len(Get(editor).buffer) + Len(encode_utf8(ch)) <= AppMaxLen
          /\ EditorChange(insert_char(Get(editor), ch))
KeyBackspace ==
    /\ editor # None
    /\ EditorChange(backspace(Get(editor)))
EditorUndo ==
    /\ editor # None
    /\ EditorChange(undo(Get(editor)))
EditorRedo ==
    /\ editor # None
    /\ EditorChange(redo(Get(editor)))

ExitEditing ==
    /\ AppRunning
    /\ editor # None
    /\ \E storeOk \in (IF Get(editor).dirty THEN StoreChoices("Immediate") ELSE {TRUE}) :
       \E io \in RewriteChoices("Immediate", storeOk) :
          /\ AppBecomes(exit_editing(AppWorld, now, storeOk, io))
          /\ exit_ret' = IF exit_editing(AppWorld, now, storeOk, io).ret THEN "true" ELSE "false"
          /\ faults_left' = faults_left - Fault(io)
    /\ UNCHANGED <<cfg, alive, now, editable, quiet, pending, trail>>

\* the process is killed and the application started again
Restart ==
    /\ alive
    /\ AppBecomes(App_new([AppWorld EXCEPT !.rt = dropped(World)], now))
    /\ exit_ret' = "none"
    /\ UNCHANGED <<cfg, alive, now, editable, faults_left, quiet, pending, trail>>

AppTick ==
    /\ now < AppMaxTime
    /\ Tick

NextApp ==
    \/ AppTick
    \/ OnTick
    \/ HandleManualSave
    \/ HandleEnterEdit
    \/ KeyChar
    \/ KeyBackspace
    \/ EditorUndo
    \/ EditorRedo
    \/ ExitEditing
    \/ Restart

SpecApp == InitApp /\ [][NextApp]_vars

(***************************************************************************)
(* The properties of the specification, and what they speak about.         *)
(***************************************************************************)
\* the note's final snapshot file, and that it holds a complete record of body
Final(jr, n) == jr[snapshot_path(n)]
HasSnapshot(jr, n, body) ==
    /\ Final(jr, n).exists
    /\ Parseable(Final(jr, n).data)
    /\ Parse(Final(jr, n).data).body = body

\* the ticks that may still pass
Lapses == 0..(MaxTime - now)

InList(list, n, body) ==
    \E i \in 1..Len(list) : list[i].note_id = n /\ list[i].body = body

\* start_session(n) on world w recovers body
Recovers(w, n, body) ==
    \A initial_body \in Bodies :
        LET s == start_session(w, n, initial_body, now)
        IN  /\ s.ret.res = "Ok"
            /\ IsSome(s.ret.snap)
            /\ Get(s.ret.snap).body = body
            /\ Get(s.session).buffer = body

\* the fresh runtime lists and recovers the pending update
RecoversPending ==
    LET listed == list_recovery(World, now)
    IN  /\ InList(listed.ret.list, pending.note, pending.body)
        /\ Recovers(listed, pending.note, pending.body)
        /\ Recovers(World, pending.note, pending.body)

WithinRetention(at) == cfg.retention = 0 \/ at >= now - cfg.retention

\* C1 as stated: after a content-changing update_buffer that returned Ok, a
\* drop with no flush and a fresh runtime on the same journal directory,
\* list_recovery lists the note with the last body and start_session
\* returns it
C1_RecoveryAfterDrop ==
    (alive /\ pending.phase = "fresh") => RecoversPending

\* C1 amended: the same, provided retention is off or no more than the
\* retention window has passed since the update_buffer call
C1_RecoveryWithinRetention ==
    (alive /\ pending.phase = "fresh" /\ WithinRetention(pending.at))
        => RecoversPending

C1_Witness ==
    /\ alive
    /\ pending.phase = "fresh"
    /\ cfg.retention # 0
    /\ now > pending.at
    /\ WithinRetention(pending.at)
    /\ pending.body # store[pending.note]

\* C2: the final snapshot file of a note is absent or a complete record of
\* that note in every state, also when the process died inside a write; a
\* snapshot write leaves the final file as it was or makes it the complete
\* new record; a reader of the final path never fails to parse it
C2_FinalNeverTorn ==
    /\ \A n \in Notes :
          /\ Final(journal, n).exists =>
                /\ Parseable(Final(journal, n).data)
                /\ Parse(Final(journal, n).data).note_id = n
          /\ read_snapshot(journal, n).ok
    /\ session # None =>
          \A contents \in Bodies, io \in IoOutcomes :
              LET sess == [Get(session) EXCEPT !.buffer = contents]
                  after == write_snapshot(journal, sess, now, io)
                  n == sess.note_id
              IN  \/ Final(after, n) = Final(journal, n)
                  \/ Final(after, n) = FileOf(SnapshotJson(sess, now))

C2_Witness ==
    /\ ~alive
    /\ \E n \in Notes :
          /\ journal[tmp_path(snapshot_path(n))].exists
          /\ ~Parseable(journal[tmp_path(snapshot_path(n))].data)
          /\ Len(journal[tmp_path(snapshot_path(n))].data) > 0
          /\ Final(journal, n).exists

\* the flush of the given kind, the store rejecting (accepting) the write
Flushed(mode, storeOk, io) ==
    IF mode = "Debounced" THEN poll(World, now, storeOk, io)
    ELSE flush_now(World, now, storeOk, io)
FlushKinds == {"Debounced", "Immediate"}

\* after a rejected flush: the snapshot holds the session's body, status()
\* is Error, an Error event came back, the session is dirty
RejectedFlushKeepsSnapshot(w) ==
    /\ w.ret.res = "Ok"
    /\ w.ret.event = "Error"
    /\ status(w.session) = "Error"
    /\ Get(w.session).dirty
    /\ HasSnapshot(w.journal, Get(w.session).note_id, Get(w.session).buffer)

\* C3 as stated: whenever the store rejects the flush of a dirty session
C3_RejectedFlush ==
    alive =>
      \A mode \in FlushKinds, io \in IoOutcomes :
          FlushCommits(mode) => RejectedFlushKeepsSnapshot(Flushed(mode, FALSE, io))

\* C3 amended: with crash recovery enabled and the snapshot re-write
\* succeeding; in every case the session stays dirty, its buffer and the
\* store are not touched, and status() is Error unless autosave and crash
\* recovery are both off
C3_RejectedFlushJournaled ==
    alive =>
      \A mode \in FlushKinds, io \in IoOutcomes :
          FlushCommits(mode) =>
            LET w == Flushed(mode, FALSE, io)
            IN  /\ (cfg.crash_recovery /\ io = IoOk) => RejectedFlushKeepsSnapshot(w)
                /\ (cfg.enabled \/ cfg.crash_recovery) => status(w.session) = "Error"
                /\ Get(w.session).dirty
                /\ Get(w.session).buffer = Get(session).buffer
                /\ w.store = store

C3_Witness ==
    /\ alive
    /\ cfg.crash_recovery
    /\ session # None
    /\ Get(session).dirty
    /\ IsSome(Get(session).last_error)
    /\ status(session) = "Error"
    /\ HasSnapshot(journal, Get(session).note_id, Get(session).buffer)
    /\ store[Get(session).note_id] # Get(session).buffer

FlushResults ==
    {Flushed(mode, storeOk, io) : mode \in FlushKinds, storeOk \in BOOLEAN, io \in IoOutcomes}
EditResults ==
    {update_buffer(World, n, contents, now, io) : n \in Notes, contents \in Bodies, io \in IoOutcomes}
        \cup {start_session(World, n, initial_body, now) : n \in Notes, initial_body \in Bodies}
        \cup {end_session(World, n, FALSE) : n \in Notes}
DiscardResults ==
    {end_session(World, n, TRUE) : n \in Notes} \cup {discard_snapshot(World, n) : n \in Notes}
ScanResults == {list_recovery(World, now), new_runtime(dropped(World), now)}

\* the operation removed the snapshot of n; the store holds what it held
Removed(w, n) == Final(journal, n).exists /\ ~Final(w.journal, n).exists
Committed(w, n) == w.store[n] = Parse(Final(journal, n).data).body
CommitDeletes(w) == w.ret.event = "Saved" => ~Final(w.journal, w.ret.note).exists

\* the snapshot of n is one a prune pass at t removes
Expired(n, t) ==
    /\ cfg.retention # 0
    /\ \/ ~Parseable(Final(journal, n).data)
       \/ Parse(Final(journal, n).data).saved_at < t - cfg.retention

\* C7 as stated: no operation removes a snapshot whose body the store does
\* not hold, and every flush that committed has removed the snapshot
C7_RemovedIffCommitted ==
    alive =>
      \A w \in FlushResults \cup EditResults \cup DiscardResults \cup ScanResults :
          /\ \A n \in Notes : Removed(w, n) => Committed(w, n)
          /\ CommitDeletes(w)

\* C7 amended: a flush removes the session's snapshot exactly when the store
\* accepted the buffer; update_buffer, start_session and end_session without
\* clear_snapshot remove nothing; end_session with clear_snapshot and
\* discard_snapshot remove only the snapshot of the note they name; any
\* other removal is a prune pass (poll, list_recovery, new) taking a
\* snapshot older than the retention window
C7_RemovedByCommitDiscardOrPrune ==
    alive =>
      /\ \A w \in FlushResults :
            /\ CommitDeletes(w)
            /\ w.ret.event = "Saved" => w.store[w.ret.note] = Get(session).buffer
            /\ \A n \in Notes :
                  Removed(w, n) =>
                    \/ w.ret.event = "Saved" /\ w.ret.note = n /\ Get(session).note_id = n
                    \/ w.ret.op = "poll" /\ Expired(n, now)
      /\ \A w \in EditResults : \A n \in Notes : ~Removed(w, n)
      /\ \A w \in DiscardResults : \A n \in Notes : Removed(w, n) => w.ret.note = n
      /\ \A w \in ScanResults : \A n \in Notes : Removed(w, n) => Expired(n, now)

C7_Witness ==
    /\ alive
    /\ cfg.crash_recovery
    /\ cfg.debounce = 1
    /\ session # None
    /\ ~Get(session).dirty
    /\ IsSome(Get(session).last_saved_at)
    /\ store[Get(session).note_id] = Get(session).buffer
    /\ store[Get(session).note_id] # <<"a">>
    /\ ~Final(journal, Get(session).note_id).exists
    /\ \E m \in Notes \ {Get(session).note_id} :
          /\ Final(journal, m).exists
          /\ Parse(Final(journal, m).data).body # store[m]

\* a poll the store rejects leaves the session dirty, ready for the next
\* poll, with its buffer and the store as they were
FailedPollKeepsDirty ==
    (alive /\ FlushCommits("Debounced")) =>
      \A io \in IoOutcomes :
          LET w == poll(World, now, FALSE, io)
          IN  /\ w.ret.event # "Saved"
              /\ w.session # None
              /\ Get(w.session).dirty
              /\ Get(w.session).buffer = Get(session).buffer
              /\ Get(w.session).dirty_since = Get(session).dirty_since
              /\ w.store = store

DirtyWith(b) == session # None /\ Get(session).dirty /\ Get(session).buffer = b
SavedWith(b) ==
    /\ session # None
    /\ ~Get(session).dirty
    /\ Get(session).buffer = b
    /\ IsSome(Get(session).last_saved_at)
    /\ status(session) = "Idle"
    /\ store[Get(session).note_id] = b

\* C5: with autosave enabled, a session that is dirty when the caller stops
\* editing is eventually saved by a poll with the body it then had, given
\* that time passes and accepted polls keep being possible; every rejected
\* poll before that leaves the session dirty with its buffer unchanged
C5_RetryLiveness ==
    /\ []FailedPollKeepsDirty
    /\ \A b \in Bodies : (quiet /\ DirtyWith(b)) ~> (quiet /\ SavedWith(b))

C5_Witness ==
    /\ quiet
    /\ cfg.debounce = 1
    /\ session # None
    /\ Get(session).dirty
    /\ IsSome(Get(session).last_error)
    /\ Get(Get(session).last_error).occurred_at > Get(Get(session).dirty_since)
    /\ store[Get(session).note_id] # Get(session).buffer

\* the cursor invariant: the cursor is within the buffer and on the boundary
\* of an extended grapheme cluster of the whole buffer
IsGraphemeBoundary(text, i) == i = Len(text) \/ i \in grapheme_indices(text)
CursorOk(e) ==
    /\ ~e.panicked
    /\ e.cursor \in 0..Len(e.buffer)
    /\ IsGraphemeBoundary(e.buffer, e.cursor)

\* C8: from an editor whose cursor is on a grapheme boundary, insert_char,
\* insert_newline, backspace and delete leave the cursor within the buffer
\* and on a grapheme boundary of the resulting buffer
C8_EditsKeepCursorOnBoundary ==
    (Editable /\ CursorOk(Get(editor))) =>
      LET e == Get(editor)
      IN  /\ \A ch \in Chars : CursorOk(insert_char(e, ch).e)
          /\ CursorOk(insert_newline(e).e)
          /\ CursorOk(backspace(e).e)
          /\ CursorOk(delete(e).e)

\* C9: from an editor whose cursor is on a grapheme boundary, undo and redo
\* leave the cursor within the restored buffer and on a grapheme boundary
\* of it
C9_UndoRedoKeepCursorOnBoundary ==
    (Editable /\ CursorOk(Get(editor))) =>
      /\ CursorOk(undo(Get(editor)).e)
      /\ CursorOk(redo(Get(editor)).e)

\* C10: after N content-changing edits since the editor was constructed or
\* marked clean, N from 1 to the history depth, undo returns true and makes
\* the buffer the content before the last edit; at history index 0 undo
\* returns false and changes nothing
C10_UndoReturnsPrevious ==
    Editable =>
      LET e == Get(editor)
          r == undo(e)
      IN  /\ (trail.valid /\ trail.n >= 1 /\ trail.n <= MAX_HISTORY) =>
                /\ r.ret
                /\ r.e.buffer = trail.before
                /\ r.e.buffer # e.buffer
          /\ e.history_index = 0 => (~r.ret /\ r.e = e)

C10_Witness ==
    /\ Editable
    /\ trail.valid
    /\ trail.n = MAX_HISTORY
    /\ Len(Get(editor).history) = MAX_HISTORY
    /\ Get(editor).history_index = MAX_HISTORY - 1
    /\ Get(editor).history[MAX_HISTORY - 1] = trail.before

C11_RedoRestoresUndone ==
    Editable =>
      LET e == Get(editor)
          u == undo(e)
          r == redo(u.e)
      IN  /\ u.ret =>
                /\ r.ret
                /\ r.e.buffer = e.buffer
                /\ r.e.history = e.history
                /\ r.e.history_index = e.history_index
          /\ e.history_index + 1 >= Len(e.history) =>
                (~redo(e).ret /\ redo(e).e = e)

C11_Witness ==
    /\ Editable
    /\ ~trail.valid
    /\ Get(editor).history_index = 0
    /\ Len(Get(editor).history) = 2
    /\ Get(editor).buffer = Get(editor).history[1]
    /\ Get(editor).history[2] # Get(editor).buffer
    /\ redo(Get(editor)).ret

\* C12: mark_clean keeps the buffer, clears dirty and leaves the history
\* the single entry that is the buffer, at index 0; undo and redo right
\* after it return false and change nothing
C12_MarkCleanIsUndoBoundary ==
    Editable =>
      LET e == Get(editor)
          m == mark_clean(e)
      IN  /\ m.buffer = e.buffer
          /\ m.cursor = e.cursor
          /\ ~m.dirty
          /\ m.history = <<e.buffer>>
          /\ m.history_index = 0
          /\ ~undo(m).ret /\ undo(m).e = m
          /\ ~redo(m).ret /\ redo(m).e = m

C12_Witness ==
    /\ Editable
    /\ Len(Get(editor).buffer) > InitLen
    /\ ~Get(editor).dirty
    /\ Get(editor).history = <<Get(editor).buffer>>
    /\ Get(editor).history_index = 0
    /\ trail.valid
    /\ trail.n = 0

\* the editing operations applied to e
EditsOf(e) ==
    {insert_char(e, ch) : ch \in Chars} \cup {insert_newline(e), backspace(e), delete(e)}

\* C13: the history holds 1 to MAX_HISTORY entries and history_index is an
\* index into it; an edit that would take the history past MAX_HISTORY
\* drops the oldest entries, keeps the newest MAX_HISTORY and leaves the
\* index at the newest entry
C13_HistoryBounded ==
    editor # None =>
      LET e == Get(editor)
      IN  /\ Len(e.history) \in 1..MAX_HISTORY
          /\ e.history_index \in 0..(Len(e.history) - 1)
          /\ ~e.panicked =>
                \A r \in EditsOf(e) :
                    (r.ret /\ e.history_index + 2 > MAX_HISTORY) =>
                      /\ Len(r.e.history) = MAX_HISTORY
                      /\ r.e.history_index = MAX_HISTORY - 1
                      /\ r.e.history[MAX_HISTORY] = r.e.buffer
                      /\ \A i \in 1..(MAX_HISTORY - 1) :
                            r.e.history[i] = e.history[i + 1 + e.history_index + 1 - MAX_HISTORY]

C13_Witness ==
    /\ Editable
    /\ trail.valid
    /\ trail.n = MAX_HISTORY + 1
    /\ Len(Get(editor).history) = MAX_HISTORY
    /\ Get(editor).history_index = MAX_HISTORY - 1
    /\ Get(editor).history[MAX_HISTORY] = Get(editor).buffer

\* the journals a prune pass at the present time leaves: at construction,
\* inside list_recovery, and inside poll once the prune interval has elapsed
PrunePasses ==
    {new_runtime(dropped(World), now).journal, list_recovery(World, now).journal}
    \cup (IF now - last_prune >= JOURNAL_PRUNE_INTERVAL
          THEN {maybe_prune_journal(World, now).journal}
          ELSE {})

\* the snapshot of n is a readable record saved at the given time
SavedAt(jr, n, at) ==
    /\ Final(jr, n).exists
    /\ Parseable(Final(jr, n).data)
    /\ Parse(Final(jr, n).data).saved_at = at

\* C14: with crash recovery on and a retention R that is not zero, a prune
\* pass (at construction, inside list_recovery, inside poll once the prune
\* interval has elapsed) removes every snapshot whose saved_at is before
\* now - R and leaves every snapshot saved at now - R or later as it was;
\* after the whole poll no snapshot saved before now - R is left
C14_PruneHonoursRetention ==
    (cfg.crash_recovery /\ cfg.retention # 0) =>
      /\ \A jr \in PrunePasses : \A n \in Notes : \A at \in 0..MaxTime :
            SavedAt(journal, n, at) =>
              IF at < now - cfg.retention
              THEN ~Final(jr, n).exists
              ELSE Final(jr, n) = Final(journal, n)
      /\ (alive /\ now - last_prune >= JOURNAL_PRUNE_INTERVAL) =>
            \A storeOk \in BOOLEAN : \A io \in IoOutcomes :
              \A n \in Notes : \A at \in 0..MaxTime :
                SavedAt(poll(World, now, storeOk, io).journal, n, at)
                    => at >= now - cfg.retention

C14_Witness ==
    /\ alive
    /\ cfg.crash_recovery
    /\ cfg.retention # 0
    /\ session # None
    /\ now - last_prune >= JOURNAL_PRUNE_INTERVAL
    /\ \E n, m \in Notes :
          /\ n # m
          /\ \E at \in 0..MaxTime : at < now - cfg.retention /\ SavedAt(journal, n, at)
          /\ SavedAt(journal, m, now - cfg.retention)

\* C15 as stated: while a session for note n is active, the list that
\* list_recovery returns holds no entry for n
C15_ListExcludesActiveSession ==
    (alive /\ session # None) =>
      LET list == list_recovery(World, now).ret.list
      IN  \A i \in 1..Len(list) : list[i].note_id # Get(session).note_id

\* the notes whose snapshot file is a readable record in jr
Readable(jr) ==
    {n \in Notes : Final(jr, n).exists /\ Parseable(Final(jr, n).data)}

\* C16: the list that list_recovery returns is ordered newest first by
\* saved_at, equal times by ascending note id, and holds exactly one entry
\* for every readable snapshot file that the prune pass left, the record of
\* that file; with crash recovery off the list is empty
C16_ListSortedAndComplete ==
    alive =>
      LET list == list_recovery(World, now).ret.list
          left == prune_journal(journal, now)
      IN  IF ~cfg.crash_recovery THEN list = <<>>
          ELSE
          /\ \A i, j \in 1..Len(list) :
                i < j =>
                  \/ list[i].saved_at > list[j].saved_at
                  \/ /\ list[i].saved_at = list[j].saved_at
                     /\ list[i].note_id < list[j].note_id
          /\ Len(list) = Cardinality(Readable(left))
          /\ \A n \in Readable(left) :
                \E i \in 1..Len(list) : list[i] = Parse(Final(left, n).data)

C16_Witness ==
    /\ alive
    /\ cfg.crash_recovery
    /\ Readable(prune_journal(journal, now)) = Notes
    /\ Len(list_recovery(World, now).ret.list) = 2
    /\ Parse(Final(journal, 1).data).saved_at < Parse(Final(journal, 2).data).saved_at
    /\ list_recovery(World, now).ret.list[1].note_id = 2

\* start_session(n, initial_body) recovers the snapshot of n: the mirror is
\* the snapshot body, the session is dirty, the snapshot is returned, and a
\* poll right after it, with autosave enabled, calls the store
StartRecovers(s, n) ==
    LET snap == Parse(Final(journal, n).data)
    IN  /\ s.ret.res = "Ok"
        /\ s.ret.snap = Some(snap)
        /\ s.session # None
        /\ Get(s.session).note_id = n
        /\ Get(s.session).buffer = snap.body
        /\ Get(s.session).dirty
        /\ cfg.enabled =>
              \A storeOk \in BOOLEAN : \A io \in IoOutcomes :
                LET p == poll(s, now, storeOk, io)
                IN  IF storeOk
                    THEN p.ret.event = "Saved" /\ p.store[n] = snap.body
                    ELSE p.ret.event = "Error" \/ p.ret.res = "Err"

\* start_session(n, initial_body) starts clean: the session is a new one
\* on initial_body, None is returned, and status is the given one
StartsClean(s, n, initial_body, st) ==
    /\ s.ret.res = "Ok"
    /\ s.ret.snap = None
    /\ s.session = Some(NewSession(n, initial_body, snapshot_path(n)))
    /\ ~Get(s.session).dirty
    /\ status(s.session) = st

\* C17 as stated: start_session recovers when crash recovery is on and a
\* snapshot of the note exists; otherwise it starts clean, with status Idle
C17_StartSession ==
    alive =>
      \A n \in Notes : \A initial_body \in Bodies :
        LET s == start_session(World, n, initial_body, now)
        IN  IF cfg.crash_recovery /\ Final(journal, n).exists
            THEN StartRecovers(s, n)
            ELSE StartsClean(s, n, initial_body, "Idle")

\* C17 amended: the same, but the status of the clean session is Disabled
\* when autosave and crash recovery are both off
C17_StartSessionStatus ==
    alive =>
      \A n \in Notes : \A initial_body \in Bodies :
        LET s == start_session(World, n, initial_body, now)
        IN  IF cfg.crash_recovery /\ Final(journal, n).exists
            THEN StartRecovers(s, n)
            ELSE StartsClean(s, n, initial_body,
                             IF ~cfg.enabled /\ ~cfg.crash_recovery
                             THEN "Disabled" ELSE "Idle")

C17_Witness ==
    /\ alive
    /\ cfg.enabled
    /\ cfg.crash_recovery
    /\ cfg.debounce = 1
    /\ session # None
    /\ Get(session).dirty
    /\ Get(session).dirty_since = Some(now - cfg.debounce)
    /\ Get(session).dirty_since_wall = Some(now)
    /\ HasSnapshot(journal, Get(session).note_id, Get(session).buffer)
    /\ Get(session).buffer # store[Get(session).note_id]

\* update_buffer(n, contents) has nothing to do
UpdateIsNoop(n, contents) ==
    \/ session = None
    \/ session # None /\ Get(session).note_id # n
    \/ session # None /\ Get(session).buffer = contents

\* C18: update_buffer changes nothing (session, journal files, store) and
\* returns Ok when there is no session, when the note is not the session's
\* or when the contents are the mirror; otherwise the mirror becomes the
\* contents, the session is dirty as of now with no last error, and with
\* crash recovery on a call that returns Ok has left the note's snapshot
\* holding the contents; with crash recovery off no file changes
C18_UpdateBufferFrame ==
    alive =>
      \A n \in Notes : \A contents \in Bodies : \A io \in IoOutcomes :
        LET u == update_buffer(World, n, contents, now, io)
        IN  IF UpdateIsNoop(n, contents)
            THEN /\ u.session = session
                 /\ u.journal = journal
                 /\ u.store = store
                 /\ u.ret.res = "Ok"
            ELSE /\ Get(u.session).note_id = n
                 /\ Get(u.session).buffer = contents
                 /\ Get(u.session).dirty
                 /\ Get(u.session).dirty_since = Some(now)
                 /\ Get(u.session).last_error = None
                 /\ u.store = store
                 /\ IF cfg.crash_recovery
                    THEN u.ret.res = "Ok" =>
                            /\ HasSnapshot(u.journal, n, contents)
                            /\ Parse(Final(u.journal, n).data).saved_at = now
                    ELSE u.journal = journal /\ u.ret.res = "Ok"

C18_Witness ==
    /\ alive
    /\ cfg.crash_recovery
    /\ cfg.debounce = 1
    /\ session # None
    /\ Get(session).dirty
    /\ Get(session).dirty_since = Some(now)
    /\ SavedAt(journal, Get(session).note_id, now)
    /\ HasSnapshot(journal, Get(session).note_id, Get(session).buffer)
    /\ Get(session).buffer # store[Get(session).note_id]
    /\ \E contents \in Bodies : ~UpdateIsNoop(Get(session).note_id, contents)

\* poll returned no event and left the session and the store as they were
PollIdle(p) ==
    /\ p.ret.res = "Ok"
    /\ p.ret.event = "None"
    /\ p.session = session
    /\ p.store = store

\* C19 as stated: with autosave disabled, poll returns no event and leaves
\* the store, the session and every journal file as they were
C19_DisabledPollDoesNothing ==
    (alive /\ ~cfg.enabled) =>
      \A storeOk \in BOOLEAN : \A io \in IoOutcomes :
        LET p == poll(World, now, storeOk, io)
        IN  PollIdle(p) /\ p.journal = journal

\* C19 amended: with autosave disabled, poll returns no event and leaves the
\* store and the session as they were; a journal file changes only by being
\* removed, with crash recovery on and the prune interval elapsed: a temp
\* file, or with a retention that is not zero a snapshot file that is
\* unreadable or was saved before now - retention; such files are removed
C19_DisabledPollOnlyPrunes ==
    (alive /\ ~cfg.enabled) =>
      \A storeOk \in BOOLEAN : \A io \in IoOutcomes :
        LET p == poll(World, now, storeOk, io)
            due == cfg.crash_recovery /\ now - last_prune >= JOURNAL_PRUNE_INTERVAL
        IN  /\ PollIdle(p)
            /\ \A n \in Notes :
                  LET tmp == tmp_path(snapshot_path(n))
                  IN  /\ p.journal[tmp] =
                            IF due THEN AbsentFile ELSE journal[tmp]
                      /\ Final(p.journal, n) =
                            IF due /\ Final(journal, n).exists /\ Expired(n, now)
                            THEN AbsentFile ELSE Final(journal, n)

C19_Witness ==
    /\ alive
    /\ ~cfg.enabled
    /\ session # None
    /\ Get(session).dirty
    /\ now - last_prune >= JOURNAL_PRUNE_INTERVAL
    /\ \E n \in Notes :
          /\ Final(journal, n).exists
          /\ Expired(n, now)
          /\ ~Final(poll(World, now, TRUE, IoOk).journal, n).exists

\* the session is dirty and its dirty duration is below the debounce window
Debouncing ==
    /\ session # None
    /\ Get(session).dirty
    /\ IF IsSome(Get(session).dirty_since)
       THEN now - Get(Get(session).dirty_since) < cfg.debounce
       ELSE TRUE

\* C20: while the dirty duration of a dirty session is below the debounce
\* window, poll returns None and changes neither the session nor the
\* store; poll and flush_now on a session that is not dirty return None and
\* change neither the session nor the store, flush_now no file either
C20_NoCommitBeforeDebounce ==
    alive =>
      \A storeOk \in BOOLEAN : \A io \in IoOutcomes :
        LET p == poll(World, now, storeOk, io)
            f == flush_now(World, now, storeOk, io)
        IN  /\ Debouncing => PollIdle(p)
            /\ (session # None /\ ~Get(session).dirty) =>
                  /\ PollIdle(p)
                  /\ PollIdle(f)
                  /\ f.journal = journal

C20_Witness ==
    /\ alive
    /\ cfg.enabled
    /\ Debouncing
    /\ Get(session).dirty_since = Some(now)
    /\ Get(session).buffer # store[Get(session).note_id]
    /\ FlushCommits("Immediate")
    /\ ~FlushCommits("Debounced")

\* the session is dirty
Dirty == session # None /\ Get(session).dirty

\* C21 as stated: flush_now on a dirty session calls the store at once,
\* whatever the debounce window and the enabled switch, and returns Saved
\* or Error; it returns None only when there is no session or the session
\* is clean
C21_FlushNowImmediate ==
    alive =>
      \A storeOk \in BOOLEAN : \A io \in IoChoices :
        LET f == flush_now(World, now, storeOk, io)
        IN  IF Dirty
            THEN /\ f.ret.res = "Ok"
                 /\ f.ret.event = (IF storeOk THEN "Saved" ELSE "Error")
                 /\ storeOk => f.store[Get(session).note_id] = Get(session).buffer
            ELSE f.ret.res = "Ok" /\ f.ret.event = "None"

\* C21 amended: the same, but when the store rejects the write, crash
\* recovery is on and the re-write of the snapshot fails, flush_now returns
\* Err instead of the Error event; the failure is recorded in the session
C21_FlushNowImmediateOrErr ==
    alive =>
      \A storeOk \in BOOLEAN : \A io \in IoChoices :
        LET f == flush_now(World, now, storeOk, io)
        IN  IF Dirty
            THEN IF storeOk
                 THEN /\ f.ret.res = "Ok"
                      /\ f.ret.event = "Saved"
                      /\ f.store[Get(session).note_id] = Get(session).buffer
                 ELSE /\ IsSome(Get(f.session).last_error)
                      /\ f.store = store
                      /\ IF cfg.crash_recovery /\ io # IoOk
                         THEN f.ret.res = "Err" /\ f.ret.event = "None"
                         ELSE f.ret.res = "Ok" /\ f.ret.event = "Error"
            ELSE f.ret.res = "Ok" /\ f.ret.event = "None"

C21_Witness ==
    /\ alive
    /\ Dirty
    /\ cfg.crash_recovery
    /\ faults_left > 0
    /\ Debouncing
    /\ Get(session).buffer # store[Get(session).note_id]
    /\ flush_now(World, now, FALSE, IoFailRename).ret.res = "Err"
    /\ flush_now(World, now, TRUE, IoOk).ret.event = "Saved"

\* after a flush that the store accepted: the store holds the mirror, the
\* session is clean, its timestamps and last error are cleared, the time of
\* the save is recorded, the snapshot is absent and status() is st
AcceptedFlush(w, st) ==
    LET n == Get(session).note_id
    IN  /\ w.ret.res = "Ok"
        /\ w.ret.event = "Saved"
        /\ w.ret.note = n
        /\ w.store[n] = Get(w.session).buffer
        /\ Get(w.session).buffer = Get(session).buffer
        /\ ~Get(w.session).dirty
        /\ Get(w.session).dirty_since = None
        /\ Get(w.session).dirty_since_wall = None
        /\ Get(w.session).last_error = None
        /\ Get(w.session).last_saved_at = Some(now)
        /\ ~Final(w.journal, n).exists
        /\ status(w.session) = st

OthersKept(jr, n) ==
    \A p \in Paths : p # snapshot_path(n) => jr[p] = journal[p]

\* end_session(n, clear_snapshot) did what it should; st is status() after
\* a drop
EndedSession(e, n, clear_snapshot, st) ==
    /\ e.ret.res = "Ok"
    /\ e.store = store
    /\ IF session # None /\ Get(session).note_id = n
       THEN /\ e.session = None
            /\ status(e.session) = st
            /\ IF clear_snapshot /\ cfg.crash_recovery
               THEN ~Final(e.journal, n).exists /\ OthersKept(e.journal, n)
               ELSE e.journal = journal
       ELSE e.session = session /\ e.journal = journal

\* C23 as stated: end_session drops the session only when the note is the
\* session's and otherwise changes nothing; with clear_snapshot and crash
\* recovery the snapshot is absent afterwards, without clear_snapshot no
\* file changes; after the drop status() is Inactive
C23_EndSession ==
    alive =>
      \A n \in Notes : \A clear_snapshot \in BOOLEAN :
        EndedSession(end_session(World, n, clear_snapshot), n, clear_snapshot, "Inactive")

\* C23 amended: after the drop status() is Disabled when autosave and
\* crash recovery are both off
C23_EndSessionStatus ==
    alive =>
      \A n \in Notes : \A clear_snapshot \in BOOLEAN :
        EndedSession(end_session(World, n, clear_snapshot), n, clear_snapshot,
                     IF ~cfg.enabled /\ ~cfg.crash_recovery THEN "Disabled" ELSE "Inactive")

C23_Witness ==
    /\ alive
    /\ cfg.crash_recovery
    /\ Dirty
    /\ \A n \in Notes : Final(journal, n).exists
    /\ ~Final(end_session(World, Get(session).note_id, TRUE).journal,
              Get(session).note_id).exists
    /\ \E n \in Notes : end_session(World, n, TRUE).session = session

\* the results of the calls that leave the session's last error as it is
QuietResults ==
    {update_buffer(World, n, contents, now, io) :
        n \in {m \in Notes : session = None \/ Get(session).note_id # m},
        contents \in Bodies, io \in IoOutcomes}
    \cup (IF session = None THEN {}
          ELSE {update_buffer(World, Get(session).note_id, Get(session).buffer, now, io) :
                    io \in IoOutcomes})
    \cup {Flushed(mode, storeOk, io) :
            mode \in {m \in FlushKinds : ~FlushCommits(m)},
            storeOk \in BOOLEAN, io \in IoOutcomes}
    \cup {discard_snapshot(World, n) : n \in Notes}
    \cup {list_recovery(World, now)}

\* C24: status() is Disabled exactly when autosave and crash recovery are
\* both off; otherwise Inactive exactly when there is no session; otherwise
\* Idle exactly when the session is clean, Error exactly when the session
\* holds a failure and Pending exactly when it is dirty and holds none.  The
\* session holds a failure after a flush the store rejected and none after
\* a flush the store accepted, a content-changing update_buffer or a
\* start_session; no other call touches the session
C24_StatusReports ==
    alive =>
      LET st == status(session)
      IN  /\ st = "Disabled" <=> (~cfg.enabled /\ ~cfg.crash_recovery)
          /\ (cfg.enabled \/ cfg.crash_recovery) =>
                /\ st = "Inactive" <=> session = None
                /\ session # None =>
                      /\ st = "Idle" <=> ~Get(session).dirty
                      /\ st = "Error" <=> IsSome(Get(session).last_error)
                      /\ st = "Pending" <=>
                            (Get(session).dirty /\ Get(session).last_error = None)
                      /\ IsSome(Get(session).last_error) => Get(session).dirty
                /\ \A mode \in FlushKinds : \A storeOk \in BOOLEAN : \A io \in IoOutcomes :
                      FlushCommits(mode) =>
                        status(Flushed(mode, storeOk, io).session) =
                            (IF storeOk THEN "Idle" ELSE "Error")
                /\ \A n \in Notes : \A contents \in Bodies : \A io \in IoOutcomes :
                      ~UpdateIsNoop(n, contents) =>
                        status(update_buffer(World, n, contents, now, io).session) = "Pending"
                /\ \A n \in Notes : \A initial_body \in Bodies :
                      status(start_session(World, n, initial_body, now).session)
                          \in {"Idle", "Pending"}
                /\ \A w \in QuietResults : w.session = session

C24_Witness ==
    /\ alive
    /\ cfg.enabled
    /\ ~cfg.crash_recovery
    /\ Dirty
    /\ status(session) = "Error"
    /\ status(update_buffer(World, Get(session).note_id, store[Get(session).note_id],
                            now, IoOk).session) = "Pending"

\* C25: with crash recovery on, a content-changing update_buffer whose
\* snapshot write fails returns Err, and yet the mirror holds the new
\* contents and the session is dirty as of now; a flush_now that the store
\* accepts, and with autosave on a poll once the debounce window has
\* passed, commits the new contents to the store
C25_FailedJournalWriteKeepsMirror ==
    (alive /\ cfg.crash_recovery) =>
      \A n \in Notes : \A contents \in Bodies : \A io \in IoOutcomes \ {IoOk} :
        ~UpdateIsNoop(n, contents) =>
          LET u == update_buffer(World, n, contents, now, io)
              f == flush_now(u, now, TRUE, IoOk)
          IN  /\ u.ret.res = "Err"
              /\ Get(u.session).buffer = contents
              /\ Get(u.session).dirty
              /\ Get(u.session).dirty_since = Some(now)
              /\ u.store = store
              /\ f.ret.event = "Saved"
              /\ f.store[n] = contents
              /\ cfg.enabled =>
                    \A d \in Lapses :
                      d >= cfg.debounce =>
                        LET p == poll(u, now + d, TRUE, IoOk)
                        IN  p.ret.event = "Saved" /\ p.store[n] = contents

C25_Witness ==
    /\ alive
    /\ cfg.crash_recovery
    /\ Dirty
    /\ faults_left = 0
    /\ Get(session).last_error = None
    /\ Get(session).dirty_since = Some(now)
    /\ ~HasSnapshot(journal, Get(session).note_id, Get(session).buffer)
    /\ journal[tmp_path(Get(session).snapshot_path)] =
          FileOf(SnapshotJson(Get(session), now))
    /\ Get(session).buffer # store[Get(session).note_id]

\* the offsets at which a word of text starts: a grapheme cluster that is
\* not blank, at the start of the text or after a blank one
WordStarts(text) ==
    {i \in grapheme_indices(text) :
        /\ CharAt(text, i) # NEWLINE
        /\ (i = 0 \/ CharBefore(text, i) = NEWLINE)}

\* a buffer of two words with two blanks between them, cursor at the end
TwoWords == EditorState_new(1, <<LETTER, NEWLINE, NEWLINE, LETTER>>)

\* C26 as stated: from a cursor on a grapheme boundary, move_word_left
\* puts the cursor on the nearest word start before it, or on 0;
\* move_word_right puts it on the nearest word start after it, or on the
\* end of the buffer; on two words with two blanks between them
\* move_word_left from the end gives the start of the second word and then
\* 0, and move_word_right from 0 gives the start of the second word
C26_WordNavigation ==
    /\ (Editable /\ CursorOk(Get(editor))) =>
          LET e == Get(editor)
          IN  /\ e.cursor > 0 =>
                    /\ move_word_left(e).ret
                    /\ move_word_left(e).e.cursor =
                          SetMax({i \in WordStarts(e.buffer) : i < e.cursor} \cup {0})
              /\ e.cursor < Len(e.buffer) =>
                    /\ move_word_right(e).ret
                    /\ move_word_right(e).e.cursor =
                          SetMin({i \in WordStarts(e.buffer) : i > e.cursor}
                                 \cup {Len(e.buffer)})
    /\ move_word_left(TwoWords).e.cursor = 3
    /\ move_word_left(move_word_left(TwoWords).e).e.cursor = 0
    /\ move_word_right(move_word_left(move_word_left(TwoWords).e).e).e.cursor = 3

\* C27: with crash recovery on, a prune pass leaves no temp file in the
\* journal directory, whatever the retention; with retention 0 it leaves
\* every snapshot file as it was, however long ago it was saved
C27_PruneRemovesTempFiles ==
    cfg.crash_recovery =>
      \A jr \in PrunePasses : \A n \in Notes :
        /\ ~jr[tmp_path(snapshot_path(n))].exists
        /\ cfg.retention = 0 => Final(jr, n) = Final(journal, n)

C27_Witness ==
    /\ alive
    /\ cfg.crash_recovery
    /\ cfg.retention = 0
    /\ now - last_prune >= JOURNAL_PRUNE_INTERVAL
    /\ \E n \in Notes :
          /\ journal[tmp_path(snapshot_path(n))].exists
          /\ \E at \in 0..MaxTime : at < now /\ SavedAt(journal, n, at)

\* the notes whose snapshot file does not parse
Unreadable(jr) ==
    {n \in Notes : Final(jr, n).exists /\ ~Parseable(Final(jr, n).data)}

\* C28: list_recovery returns Ok also when a snapshot file does not parse;
\* its list holds the records of the readable snapshot files that the prune
\* pass left and nothing else, and afterwards no unreadable snapshot file is
\* in the journal directory, while the readable ones are as the prune pass
\* left them
C28_CorruptSnapshotDropped ==
    (alive /\ cfg.crash_recovery) =>
      LET l == list_recovery(World, now)
          left == prune_journal(journal, now)
      IN  /\ l.ret.res = "Ok"
          /\ {l.ret.list[i] : i \in 1..Len(l.ret.list)} =
                {Parse(Final(left, n).data) : n \in Readable(left)}
          /\ Unreadable(l.journal) = {}
          /\ \A n \in Unreadable(journal) : ~Final(l.journal, n).exists
          /\ \A n \in Readable(left) : Final(l.journal, n) = Final(journal, n)

C28_Witness ==
    /\ alive
    /\ cfg.crash_recovery
    /\ cfg.retention = 0
    /\ Unreadable(journal) # {}
    /\ Readable(journal) # {}
    /\ Len(list_recovery(World, now).ret.list) = 1

\* C29 as stated: when exit_editing returns true for an open editor (the
\* session is ended and the snapshot cleared), the store holds the editor's
\* buffer for the note
C29_ExitCommitsBuffer ==
    (AppRunning /\ editor # None) =>
      \A storeOk \in BOOLEAN, io \in IoOutcomes :
          LET e == Get(editor)
              r == exit_editing(AppWorld, now, storeOk, io)
          IN  r.ret =>
                /\ r.editor = None
                /\ r.rt.session = None
                /\ r.rt.store[e.note_id] = e.buffer

\* C30 as stated: with crash recovery on and every journal write
\* succeeding, whenever the session is dirty the snapshot file of its note
\* exists and holds the session's mirror
C30_JournalCurrent ==
    (alive /\ cfg.crash_recovery /\ Dirty) =>
        HasSnapshot(journal, Get(session).note_id, Get(session).buffer)

\* a step that keeps the dirty session keeps its snapshot, unless it is a
\* discard_snapshot; this does not hold either: a prune pass removes the
\* snapshot of the dirty session once the retention has passed
DirtySnapshotKeptUnlessDiscarded ==
    [][(/\ alive /\ cfg.crash_recovery /\ Dirty
        /\ HasSnapshot(journal, Get(session).note_id, Get(session).buffer)
        /\ session' = session
        /\ alive')
       => \/ HasSnapshot(journal', Get(session).note_id, Get(session).buffer)
          \/ \E n \in Notes : journal' = discard_snapshot(World, n).journal]_vars

\* C31: whenever the editor is not dirty, the buffer is the content the
\* editor had when it was constructed or last marked clean
C31_CleanBufferIsCommitted ==
    Editable => (~Get(editor).dirty => Get(editor).buffer = trail.base)

\* C32: after every undo or redo that returns true, dirty is false exactly
\* when the history index is 0
C32_RestoredDirtyFollowsIndex ==
    Editable =>
      LET e == Get(editor)
          u == undo(e)
          r == redo(e)
      IN  /\ u.ret => (u.e.dirty <=> u.e.history_index # 0)
          /\ r.ret => (r.e.dirty <=> r.e.history_index # 0)

C32_Witness ==
    /\ Editable
    /\ ~trail.valid
    /\ Len(Get(editor).history) = 2
    /\ \/ Get(editor).history_index = 0 /\ ~Get(editor).dirty /\ redo(Get(editor)).ret
       \/ Get(editor).history_index = 1 /\ Get(editor).dirty /\ undo(Get(editor)).ret

\* C33: the history is linear: an edit that changes the content puts the
\* new content on the entries up to the index it was made at (less the
\* entries evicted at the front) and drops every entry after that index, so
\* that redo right after the edit returns false and changes nothing; redo
\* returns true exactly while the index is before the newest entry
C33_HistoryLinear ==
    Editable =>
      LET e == Get(editor)
      IN  /\ redo(e).ret <=> e.history_index + 1 < Len(e.history)
          /\ \A r \in EditsOf(e) :
                (r.ret /\ ~r.e.panicked /\ r.e.buffer # e.buffer) =>
                  LET kept == Len(r.e.history) - 1
                      first == e.history_index + 1 - kept
                  IN  /\ r.e.history_index = kept
                      /\ r.e.history[kept + 1] = r.e.buffer
                      /\ first >= 0
                      /\ \A i \in 1..kept : r.e.history[i] = e.history[first + i]
                      /\ ~redo(r.e).ret
                      /\ redo(r.e).e = r.e

C33_Witness ==
    /\ Editable
    /\ ~trail.valid
    /\ trail.n = 1
    /\ trail.before = trail.base
    /\ Get(editor).history = <<trail.base, Get(editor).buffer>>
    /\ Get(editor).history_index = 1
    /\ ~redo(Get(editor)).ret

\* C34: in every state of the editor the history entry at history_index is
\* the buffer
C34_HistoryEntryIsBuffer ==
    (editor # None /\ ~Get(editor).panicked) =>
      /\ Get(editor).history_index < Len(Get(editor).history)
      /\ Get(editor).history[Get(editor).history_index + 1] = Get(editor).buffer

C34_Witness ==
    /\ Editable
    /\ ~trail.valid
    /\ Get(editor).history_index = 0
    /\ Len(Get(editor).history) = 2
    /\ Get(editor).history[1] = Get(editor).buffer
    /\ Get(editor).buffer # trail.base

\* the lines of a text: where they start, the line of an offset, where a
\* line ends, the cursor positions of a line, the column of an offset and
\* the offset of a column, the line end when the line is shorter
LineStarts(text) == {0} \cup {i \in 1..Len(text) : text[i] = NEWLINE}
LineOf(text, p) == SetMax({s \in LineStarts(text) : s <= p})
LineEndOf(text, s) == SetMin({j \in s..Len(text) : j = Len(text) \/ text[j + 1] = NEWLINE})
Columns(text, s) == {p \in s..LineEndOf(text, s) : IsGraphemeBoundary(text, p)}
ColumnOf(text, p) == Cardinality({q \in Columns(text, LineOf(text, p)) : q < p})
AtColumn(text, s, c) ==
    LET at == {p \in Columns(text, s) : ColumnOf(text, p) = c}
    IN  IF at = {} THEN LineEndOf(text, s) ELSE CHOOSE p \in at : TRUE

\* where column c of the line above and of the line below the offset p is:
\* offset 0 on the first line, the buffer end on the last
Above(text, p, c) ==
    IF LineOf(text, p) = 0 THEN 0
    ELSE AtColumn(text, LineOf(text, LineOf(text, p) - 1), c)
Below(text, p, c) ==
    IF LineEndOf(text, LineOf(text, p)) = Len(text) THEN Len(text)
    ELSE AtColumn(text, LineEndOf(text, LineOf(text, p)) + 1, c)

\* the next `steps` vertical moves from e, in any order, go to column c
RECURSIVE KeepsColumn(_, _, _)
KeepsColumn(e, c, steps) ==
    \/ steps = 0
    \/ /\ LET r == move_up(e)
              want == Above(e.buffer, e.cursor, c)
          IN  /\ ~r.e.panicked
              /\ r.e.buffer = e.buffer
              /\ r.e.cursor = want
              /\ r.ret <=> want # e.cursor
              /\ KeepsColumn(r.e, c, steps - 1)
       /\ LET r == move_down(e)
              want == Below(e.buffer, e.cursor, c)
          IN  /\ ~r.e.panicked
              /\ r.e.buffer = e.buffer
              /\ r.e.cursor = want
              /\ r.ret <=> want # e.cursor
              /\ KeepsColumn(r.e, c, steps - 1)

\* C37: from column c (the cursor after c grapheme clusters of its line)
\* with no preferred column set, every run of move_up
\* and move_down puts the cursor on column c of the line it moves to when
\* that line has at least c grapheme clusters and on its end when it is
\* shorter; move_up on the first line puts the cursor on offset 0 and
\* move_down on the last line on the buffer end, and either returns false
\* exactly when the cursor is already there
C37_VerticalMotionKeepsColumn ==
    (Editable /\ CursorOk(Get(editor)) /\ Get(editor).preferred_column = None) =>
      KeepsColumn(Get(editor), ColumnOf(Get(editor).buffer, Get(editor).cursor), NavSteps)

C37_Witness ==
    /\ Editable
    /\ Get(editor).preferred_column = Some(1)
    /\ LineOf(Get(editor).buffer, Get(editor).cursor) # 0
    /\ ColumnOf(Get(editor).buffer, Get(editor).cursor) = 0
    /\ Get(editor).cursor = LineEndOf(Get(editor).buffer, LineOf(Get(editor).buffer, Get(editor).cursor))
    /\ ColumnOf(Get(editor).buffer, move_down(Get(editor)).e.cursor) = 1

\* the start of the grapheme cluster of the text before the offset p that
\* ends at p, and the end of the grapheme cluster of the text from p on
\* that starts at p
ClusterStartBefore(text, p) ==
    SetMax({i \in 0..(p - 1) : IsGraphemeBoundary(SubSeq(text, 1, p), i)})
ClusterEndAfter(text, p) ==
    SetMin({i \in (p + 1)..Len(text) : IsGraphemeBoundary(SubSeq(text, p + 1, Len(text)), i - p)})

\* C38: backspace removes the one grapheme cluster that ends at the cursor
\* and puts the cursor on its start; delete removes the one grapheme
\* cluster that starts at the cursor and keeps the cursor; backspace at
\* offset 0 and delete at the buffer end return false and change nothing
C38_RemoveOneCluster ==
    Editable =>
      LET e == Get(editor)
          b == backspace(e)
          d == delete(e)
      IN  /\ e.cursor = 0 => (~b.ret /\ b.e = e)
          /\ e.cursor >= Len(e.buffer) => (~d.ret /\ d.e = e)
          /\ e.cursor > 0 =>
                /\ ~b.e.panicked
                /\ b.ret
                /\ b.e.buffer = Drain(e.buffer, ClusterStartBefore(e.buffer, e.cursor), e.cursor)
                /\ b.e.cursor = ClusterStartBefore(e.buffer, e.cursor)
          /\ e.cursor < Len(e.buffer) =>
                /\ ~d.e.panicked
                /\ d.ret
                /\ d.e.buffer = Drain(e.buffer, e.cursor, ClusterEndAfter(e.buffer, e.cursor))
                /\ d.e.cursor = e.cursor

\* the session mirrors the buffer of the editor ed
Mirrors(sess, ed) ==
    /\ sess # None
    /\ Get(sess).note_id = ed.note_id
    /\ Get(sess).buffer = ed.buffer

\* C35: while a note is being edited the mirror of the autosave session is
\* the buffer of the editor, and it is so again after every editor key
\* (insert, newline, backspace, delete, undo, redo) has been handled,
\* whatever the write of the journal snapshot meets
C35_MirrorFollowsEditor ==
    (AppRunning /\ editor # None) =>
      LET e == Get(editor)
      IN  /\ Mirrors(session, e)
          /\ \A r \in EditsOf(e) \cup {undo(e), redo(e)}, io \in IoOutcomes :
                ~r.e.panicked =>
                  LET a == apply_editor_change(AppWorld, r, now, io)
                  IN  /\ a.editor = Some(r.e)
                      /\ Mirrors(a.rt.session, r.e)

C35_Witness ==
    /\ AppRunning
    /\ editor # None
    /\ Get(editor).history_index = 0
    /\ Len(Get(editor).history) = 2
    /\ Mirrors(session, Get(editor))
    /\ Get(session).buffer # Get(editor).history[2]
    /\ Get(session).dirty

\* C36: every update_buffer that changes the mirror starts the debounce
\* window again: whatever the session was before, a poll less than debounce
\* after the update returns no event and leaves the session and the store
\* as the update left them, so that of the contents passed at intervals
\* shorter than debounce only the last are written; a poll at debounce or
\* more after the update, with autosave enabled and the store accepting,
\* writes those contents to the store, and no other note
C36_UpdateRestartsDebounce ==
    alive =>
      \A n \in Notes : \A contents \in Bodies : \A io \in IoOutcomes :
        ~UpdateIsNoop(n, contents) =>
          LET u == update_buffer(World, n, contents, now, io)
          IN  /\ Get(u.session).dirty_since = Some(now)
              /\ u.store = store
              /\ \A d \in Lapses : \A storeOk \in BOOLEAN : \A rewrite \in IoOutcomes :
                    LET p == poll(u, now + d, storeOk, rewrite)
                    IN  IF d < cfg.debounce
                        THEN /\ p.ret.res = "Ok"
                             /\ p.ret.event = "None"
                             /\ p.session = u.session
                             /\ p.store = store
                        ELSE (cfg.enabled /\ storeOk) =>
                                /\ p.ret.event = "Saved"
                                /\ p.store = [store EXCEPT ![n] = contents]
                                /\ ~Get(p.session).dirty

C36_Witness ==
    /\ alive
    /\ cfg.enabled
    /\ cfg.debounce > 0
    /\ Dirty
    /\ IsSome(Get(session).dirty_since)
    /\ now - Get(Get(session).dirty_since) >= cfg.debounce
    /\ poll(World, now, TRUE, IoOk).ret.event = "Saved"
    /\ \E contents \in Bodies :
          /\ ~UpdateIsNoop(Get(session).note_id, contents)
          /\ poll(update_buffer(World, Get(session).note_id, contents, now, IoOk),
                  now, TRUE, IoOk).ret.event = "None"

\* in the world w a session that is not dirty mirrors the store body of its
\* note
CleanMirrorsStore(w) ==
    (w.session # None /\ ~Get(w.session).dirty) =>
        w.store[Get(w.session).note_id] = Get(w.session).buffer

\* C39: when the session is clean the store body of its note is the
\* mirror.  It is so when there is no session, as after new, and each of
\* start_session called with the store's body of the note, update_buffer,
\* poll and flush_now keeps it so, whatever the store answers and whatever
\* the snapshot writes meet
C39_CleanSessionMatchesStore ==
    (alive /\ CleanMirrorsStore(World)) =>
      /\ CleanMirrorsStore(new_runtime(World, now))
      /\ \A n \in Notes : CleanMirrorsStore(start_session(World, n, store[n], now))
      /\ \A n \in Notes : \A contents \in Bodies : \A io \in IoOutcomes :
            CleanMirrorsStore(update_buffer(World, n, contents, now, io))
      /\ \A storeOk \in BOOLEAN : \A io \in IoOutcomes :
            /\ CleanMirrorsStore(poll(World, now, storeOk, io))
            /\ CleanMirrorsStore(flush_now(World, now, storeOk, io))

C39_Witness ==
    /\ alive
    /\ session # None
    /\ ~Get(session).dirty
    /\ IsSome(Get(session).last_saved_at)
    /\ Get(session).buffer = store[Get(session).note_id]
    /\ \E n \in Notes : store[n] # Get(session).buffer
    /\ \E contents \in Bodies :
          /\ ~UpdateIsNoop(Get(session).note_id, contents)
          /\ Get(update_buffer(World, Get(session).note_id, contents, now, IoOk).session).dirty

\* C40: with crash recovery disabled no operation of the runtime creates,
\* rewrites or removes a journal file, whatever the directory holds:
\* new, start_session, update_buffer, poll, flush_now, end_session,
\* discard_snapshot and list_recovery leave every file as it is;
\* start_session returns no recovered snapshot and opens the session on
\* the body it is given, and list_recovery returns the empty list
C40_DisabledRecoveryLeavesJournal ==
    ~cfg.crash_recovery =>
      /\ new_runtime(World, now).journal = journal
      /\ alive =>
            /\ \A n \in Notes : \A body \in Bodies :
                  LET s == start_session(World, n, body, now)
                  IN  /\ s.journal = journal
                      /\ s.ret.res = "Ok"
                      /\ s.ret.snap = None
                      /\ Get(s.session).buffer = body
                      /\ ~Get(s.session).dirty
            /\ \A n \in Notes : \A contents \in Bodies : \A io \in IoOutcomes :
                  /\ update_buffer(World, n, contents, now, io).journal = journal
                  /\ update_buffer(World, n, contents, now, io).ret.res = "Ok"
            /\ \A storeOk \in BOOLEAN : \A io \in IoOutcomes :
                  /\ poll(World, now, storeOk, io).journal = journal
                  /\ flush_now(World, now, storeOk, io).journal = journal
            /\ \A n \in Notes : \A clear_snapshot \in BOOLEAN :
                  end_session(World, n, clear_snapshot).journal = journal
            /\ \A n \in Notes : discard_snapshot(World, n).journal = journal
            /\ list_recovery(World, now).journal = journal
            /\ list_recovery(World, now).ret.list = <<>>

C40_Witness ==
    /\ alive
    /\ ~cfg.crash_recovery
    /\ cfg.retention = 1
    /\ now = MaxTime
    /\ now - last_prune >= JOURNAL_PRUNE_INTERVAL
    /\ session # None
    /\ Get(session).dirty
    /\ IsSome(Get(session).last_error)
    /\ Final(journal, Get(session).note_id).exists
    /\ Parse(Final(journal, Get(session).note_id).data).body # Get(session).buffer
    /\ journal[tmp_path(snapshot_path(Get(session).note_id))].exists
    /\ Expired(Get(session).note_id, now)

============================================================================
